---- MODULE Spec2Model ----
(***************************************************************************)
(* A model of DIPlib's measurement infrastructure: the dip::Measurement    *)
(* table (build, forge, dual views), the FeatureMass line-based feature,   *)
(* and the MeasurementTool driver.                                         *)
(***************************************************************************)
EXTENDS Integers, Sequences, FiniteSets, TLC

VARIABLES
    objects_,        \* Measurement::objects_        (row index -> object ID)
    objectIndices_,  \* Measurement::objectIndices_  (object ID -> row index)
    features_,       \* Measurement::features_       (FeatureInfo records)
    values_,         \* Measurement::values_         (one entry per sub-column)
    featureIndices_, \* Measurement::featureIndices_ (name -> feature index)
    data_,           \* Measurement::data_           (row-major buffer)
    lastOp,          \* the member function called last
    err,             \* what that call did: "ok" or the message it threw
    lastChanged,     \* whether that call changed the table
    mass_data_,      \* FeatureMass::data_ (one accumulator per object row)
    massPhase,       \* where the FeatureMass instance is in its run
    massScanned,     \* how many image lines ScanLine has been given in this run
    massExpected,    \* per row, the intensity of the pixels carrying the row's label so far
    massFinished,    \* the rows Finish has been called for in this run
    tool_features_,       \* MeasurementTool::features_ (the registered features)
    tool_featureIndices_, \* MeasurementTool::featureIndices_ (name -> index)
    request,         \* the feature names given to Measure
    resolved,        \* the resolved feature list, or the error that stopped resolution
    toolPc,          \* where the tool is: registering, or done resolving
    m_label,         \* Measure: the label image, a sequence of image lines
    m_grey,          \* Measure: the grey-value image, raw (absent), scalar or tensor
    m_objectIDs,     \* Measure: the objectIDs argument
    m_pc,            \* Measure: the step the driver is at
    m_next,          \* Measure: the index of the feature or image line to handle next
    m_initialized,   \* Measure: the features whose Initialize returned, in call order
    m_cleaned,       \* Measure: the features Cleanup was called on, in call order
    m_error,         \* Measure: the error that is propagating, or "ok"
    m_calls,         \* Measure: the ScanLine and Finish calls made, in call order
    size_data_,      \* the accumulators of the Size feature (one per object row)
    paint,           \* ObjectToMeasurement: the feature view given and the image made
    tools,           \* two tools: per tool, the data_ of its FeatureMass instance
    calls,           \* two Measure calls under way: per call, its tool, images, step and table
    cursor,          \* the caller's views of the table and the cell obtained from one of them
    offs             \* a CreateOffsetsArray call: its arguments, locals and position

tableVars == <<objects_, objectIndices_, features_, values_, featureIndices_, data_>>
callVars == <<lastOp, err, lastChanged>>
massVars == <<mass_data_, massPhase, massScanned, massExpected, massFinished>>
toolVars == <<tool_features_, tool_featureIndices_, request, resolved, toolPc>>
measureVars == <<m_label, m_grey, m_objectIDs, m_pc, m_next, m_initialized, m_cleaned,
                 m_error, m_calls, size_data_, paint, tools, calls, cursor, offs>>
vars == <<tableVars, callVars, massVars, toolVars, measureVars>>

(***************************************************************************)
(* Bounds of the model.                                                    *)
(***************************************************************************)
MaxObjectID == 2
MaxValues == 2
MaxIdsPerCall == 2
MassLineLen == 3
MassNumLines == 2
MaxDeps == 2
MaxRequest == 2

ObjectIDSet == 1..MaxObjectID
FeatureNames == {"", "Size", "Mass", "Ratio"}
ValueName(ii) == IF ii = 1 THEN "v0" ELSE IF ii = 2 THEN "v1" ELSE "vn"
ValueArrays == {[ii \in 1..n |-> ValueName(ii)] : n \in 0..MaxValues}

RECURSIVE SeqsUpTo(_, _)
SeqsUpTo(S, n) ==
    IF n = 0 THEN {<<>>}
    ELSE LET shorter == SeqsUpTo(S, n - 1)
         IN  shorter \cup {Append(s, x) : s \in shorter, x \in S}

IdLists == SeqsUpTo(ObjectIDSet, MaxIdsPerCall)

IsInjective(seq) == \A i, j \in 1..Len(seq) : seq[i] = seq[j] => i = j

\* the lines of a label image: 0 is the background
LabelSet == 0..MaxObjectID
LabelLines == [1..MassLineLen -> LabelSet]

\* the grey-value line that goes with a label line: the pixel at position p has intensity
\* 2^(p-1), so that a sum of intensities tells which pixels went into it
GreyLine(n) == [p \in 1..n |-> 2 ^ (p - 1)]

(***************************************************************************)
(* The messages of the DIP_THROW_IF statements, named by the error kinds.  *)
(***************************************************************************)
OK == "ok"
AlreadyForged == "Measurement object is forged."
NoFeatureName == "No feature name given."
FeaturePresent == "Feature already present"
NoValues == "A feature needs at least one value."
ObjectPresent == "Object already present"
ZeroSized == "Attempting to forge a zero-sized table."
NotForged == "Measurement object not forged."
UnknownFeature == "Feature not present"
UnknownObject == "Object not present"
NotScalar == "Image is not scalar"

(***************************************************************************)
(* The table as a value, and the member functions as operators on it.      *)
(* A result is [t |-> the table afterwards, err |-> OK or the message].    *)
(***************************************************************************)
EmptyMap == [x \in {} |-> 0]

EmptyTable ==
    [objects_ |-> <<>>, objectIndices_ |-> EmptyMap, features_ |-> <<>>,
     values_ |-> <<>>, featureIndices_ |-> EmptyMap, data_ |-> <<>>]

Table ==
    [objects_ |-> objects_, objectIndices_ |-> objectIndices_, features_ |-> features_,
     values_ |-> values_, featureIndices_ |-> featureIndices_, data_ |-> data_]

\* std::map::emplace: inserts only when the key is absent
Emplace(m, k, v) == IF k \in DOMAIN m THEN m ELSE m @@ (k :> v)

T_IsForged(t) == Len(t.data_) # 0
T_Stride(t) == Len(t.values_)
T_NumberOfValues(t) == Len(t.values_)
T_NumberOfFeatures(t) == Len(t.features_)
T_NumberOfObjects(t) == Len(t.objects_)
T_FeatureExists(t, name) == name \in DOMAIN t.featureIndices_
T_ObjectExists(t, objectID) == objectID \in DOMAIN t.objectIndices_

Throw(t, message) == [t |-> t, err |-> message]
Return(t) == [t |-> t, err |-> OK]

\* T_AddFeature_ with the fault of taking the feature's index for its start column
T_AddFeature_IndexAsColumn(t, name, values) ==
    LET index == Len(t.features_)
    IN  [t EXCEPT !.values_ = t.values_ \o values,
                  !.features_ = Append(t.features_,
                      [name |-> name, startColumn |-> index, numberValues |-> Len(values)]),
                  !.featureIndices_ = Emplace(t.featureIndices_, name, index)]

\* T_AddFeature_ with the fault of assigning the values array instead of appending it
T_AddFeature_AssignsValues(t, name, values) ==
    LET startIndex == Len(t.values_)
        index == Len(t.features_)
    IN  [t EXCEPT !.values_ = values,
                  !.features_ = Append(t.features_,
                      [name |-> name, startColumn |-> startIndex, numberValues |-> Len(values)]),
                  !.featureIndices_ = Emplace(t.featureIndices_, name, index)]

T_AddFeature_(t, name, values) ==
    LET startIndex == Len(t.values_)
        index == Len(t.features_)
    IN  [t EXCEPT !.values_ = t.values_ \o values,
                  !.features_ = Append(t.features_,
                      [name |-> name, startColumn |-> startIndex, numberValues |-> Len(values)]),
                  !.featureIndices_ = Emplace(t.featureIndices_, name, index)]

\* T_AddFeature with the fault of not testing for an empty values array
T_AddFeature_NoValuesTest(t, name, values) ==
    IF T_IsForged(t) THEN Throw(t, AlreadyForged)
    ELSE IF name = "" THEN Throw(t, NoFeatureName)
    ELSE IF T_FeatureExists(t, name) THEN Throw(t, FeaturePresent)
    ELSE Return(T_AddFeature_(t, name, values))

T_AddFeature(t, name, values) ==
    IF T_IsForged(t) THEN Throw(t, AlreadyForged)
    ELSE IF name = "" THEN Throw(t, NoFeatureName)
    ELSE IF T_FeatureExists(t, name) THEN Throw(t, FeaturePresent)
    ELSE IF values = <<>> THEN Throw(t, NoValues)
    ELSE Return(T_AddFeature_(t, name, values))

\* T_EnsureFeature with the fault of testing for the name before testing for forged
T_EnsureFeature_PresentFirst(t, name, values) ==
    IF name = "" THEN Throw(t, NoFeatureName)
    ELSE IF T_FeatureExists(t, name) THEN Return(t)
    ELSE IF T_IsForged(t) THEN Throw(t, AlreadyForged)
    ELSE IF values = <<>> THEN Throw(t, NoValues)
    ELSE Return(T_AddFeature_(t, name, values))

\* T_EnsureFeature with the fault of testing the values array before the name's presence
T_EnsureFeature_ValuesFirst(t, name, values) ==
    IF T_IsForged(t) THEN Throw(t, AlreadyForged)
    ELSE IF name = "" THEN Throw(t, NoFeatureName)
    ELSE IF values = <<>> THEN Throw(t, NoValues)
    ELSE IF T_FeatureExists(t, name) THEN Return(t)
    ELSE Return(T_AddFeature_(t, name, values))

T_EnsureFeature(t, name, values) ==
    IF T_IsForged(t) THEN Throw(t, AlreadyForged)
    ELSE IF name = "" THEN Throw(t, NoFeatureName)
    ELSE IF T_FeatureExists(t, name) THEN Return(t)
    ELSE IF values = <<>> THEN Throw(t, NoValues)
    ELSE Return(T_AddFeature_(t, name, values))

\* T_AddObjectIDsLoop with the fault of not testing ObjectExists
RECURSIVE T_AddObjectIDsLoop_NoCheck(_, _, _)
T_AddObjectIDsLoop_NoCheck(t, objectIDs, ii) ==
    IF ii > Len(objectIDs) THEN Return(t)
    ELSE LET index == Len(t.objects_)
         IN  T_AddObjectIDsLoop_NoCheck(
                 [t EXCEPT !.objects_ = Append(t.objects_, objectIDs[ii]),
                           !.objectIndices_ = Emplace(t.objectIndices_, objectIDs[ii], index)],
                 objectIDs, ii + 1)

\* T_AddObjectIDsLoop with the fault of taking the row index after the push_back
RECURSIVE T_AddObjectIDsLoop_IndexAfterPush(_, _, _)
T_AddObjectIDsLoop_IndexAfterPush(t, objectIDs, ii) ==
    IF ii > Len(objectIDs) THEN Return(t)
    ELSE IF T_ObjectExists(t, objectIDs[ii]) THEN Throw(t, ObjectPresent)
    ELSE LET index == Len(t.objects_) + 1
         IN  T_AddObjectIDsLoop_IndexAfterPush(
                 [t EXCEPT !.objects_ = Append(t.objects_, objectIDs[ii]),
                           !.objectIndices_ = Emplace(t.objectIndices_, objectIDs[ii], index)],
                 objectIDs, ii + 1)

\* the loop of AddObjectIDs from position ii on: a throw keeps what was pushed before it
RECURSIVE T_AddObjectIDsLoop(_, _, _)
T_AddObjectIDsLoop(t, objectIDs, ii) ==
    IF ii > Len(objectIDs) THEN Return(t)
    ELSE IF T_ObjectExists(t, objectIDs[ii]) THEN Throw(t, ObjectPresent)
    ELSE LET index == Len(t.objects_)
         IN  T_AddObjectIDsLoop(
                 [t EXCEPT !.objects_ = Append(t.objects_, objectIDs[ii]),
                           !.objectIndices_ = Emplace(t.objectIndices_, objectIDs[ii], index)],
                 objectIDs, ii + 1)

\* AddObjectIDs with the fault of walking the array from its end
T_AddObjectIDs_Backwards(t, objectIDs) ==
    IF T_IsForged(t) THEN Throw(t, AlreadyForged)
    ELSE T_AddObjectIDsLoop(t, [ii \in 1..Len(objectIDs) |-> objectIDs[Len(objectIDs) + 1 - ii]], 1)

T_AddObjectIDs(t, objectIDs) ==
    IF T_IsForged(t) THEN Throw(t, AlreadyForged)
    ELSE T_AddObjectIDsLoop(t, objectIDs, 1)

\* T_Forge with the fault of allocating a single row
T_Forge_OneRow(t) ==
    IF ~T_IsForged(t)
    THEN LET n == Len(t.values_) * Len(t.objects_)
         IN  IF n = 0 THEN Throw(t, ZeroSized)
             ELSE Return([t EXCEPT !.data_ = [ii \in 1..Len(t.values_) |-> 0]])
    ELSE Return(t)

\* T_Forge with the fault of testing only for a table without objects
T_Forge_TestsObjectsOnly(t) ==
    IF ~T_IsForged(t)
    THEN LET n == Len(t.values_) * Len(t.objects_)
         IN  IF Len(t.objects_) = 0 THEN Throw(t, ZeroSized)
             ELSE Return([t EXCEPT !.data_ = [ii \in 1..n |-> 0]])
    ELSE Return(t)

\* T_Forge with the fault of allocating a zeroed buffer on every call
T_Forge_Reallocates(t) ==
    LET n == Len(t.values_) * Len(t.objects_)
    IN  IF n = 0 THEN Throw(t, ZeroSized)
        ELSE Return([t EXCEPT !.data_ = [ii \in 1..n |-> 0]])

\* T_Forge with the fault of leaving the buffer unset: its elements are not zero
T_Forge_NotZeroed(t) ==
    IF ~T_IsForged(t)
    THEN LET n == Len(t.values_) * Len(t.objects_)
         IN  IF n = 0 THEN Throw(t, ZeroSized)
             ELSE Return([t EXCEPT !.data_ = [ii \in 1..n |-> 1]])
    ELSE Return(t)

T_Forge(t) ==
    IF ~T_IsForged(t)
    THEN LET n == Len(t.values_) * Len(t.objects_)
         IN  IF n = 0 THEN Throw(t, ZeroSized)
             ELSE Return([t EXCEPT !.data_ = [ii \in 1..n |-> 0]])
    ELSE Return(t)

(***************************************************************************)
(* Lookups. A result is [err |-> OK, val |-> the index] or [err |-> the    *)
(* message thrown]; a lookup never changes the table.                      *)
(***************************************************************************)
\* MapFind with the fault of subscripting the map: a key that is absent is inserted
\* with a value-initialised index
MapFind_Subscript(m, key) ==
    IF key \in DOMAIN m THEN [m |-> m, end |-> FALSE, second |-> m[key]]
    ELSE [m |-> Emplace(m, key, 0), end |-> FALSE, second |-> 0]

\* find() of an index map: the map after the call, whether the iterator is end(),
\* and it->second when it is not
MapFind(m, key) ==
    IF key \in DOMAIN m THEN [m |-> m, end |-> FALSE, second |-> m[key]]
    ELSE [m |-> m, end |-> TRUE, second |-> 0]

T_FeatureIndex(t, name) ==
    LET it == MapFind(t.featureIndices_, name)
    IN  IF it.end THEN [err |-> UnknownFeature, val |-> 0]
        ELSE [err |-> OK, val |-> it.second]

T_ObjectIndex(t, objectID) ==
    LET it == MapFind(t.objectIndices_, objectID)
    IN  IF it.end THEN [err |-> UnknownObject, val |-> 0]
        ELSE [err |-> OK, val |-> it.second]

T_ValueIndex(t, name) ==
    LET fi == T_FeatureIndex(t, name)
    IN  IF fi.err # OK THEN fi
        ELSE [err |-> OK, val |-> t.features_[fi.val + 1].startColumn]

T_NumberOfValuesOf(t, name) ==
    LET fi == T_FeatureIndex(t, name)
    IN  IF fi.err # OK THEN fi
        ELSE [err |-> OK, val |-> t.features_[fi.val + 1].numberValues]

\* Values( String const& name ): a copy of the feature's part of values_
T_ValuesOf(t, name) ==
    LET fi == T_FeatureIndex(t, name)
    IN  IF fi.err # OK THEN [err |-> fi.err, val |-> <<>>]
        ELSE LET feature == t.features_[fi.val + 1]
             IN  [err |-> OK,
                  val |-> [ii \in 1..feature.numberValues |->
                              t.values_[ii + feature.startColumn]]]

\* T_Data with the fault of not testing IsForged
T_Data_NoTest(t) == [err |-> OK, val |-> 0]

\* Data(): the buffer starts at offset 0; throws on a table that is not forged
T_Data(t) ==
    IF ~T_IsForged(t) THEN [err |-> NotForged, val |-> 0]
    ELSE [err |-> OK, val |-> 0]

\* a call of Stride(): it has no test and returns values_.size()
T_StrideCall(t) == [err |-> OK, val |-> T_Stride(t)]

(***************************************************************************)
(* The views. An IteratorFeature or IteratorObject is its index_ (the      *)
(* table it refers to is the operators' argument t); a cell is the view    *)
(* it refers to and its own index_. Addresses are offsets from             *)
(* data_.data().                                                           *)
(***************************************************************************)
\* Measurement::FirstFeature / operator[]( String const& )
T_FirstFeature(t) == [err |-> OK, index_ |-> 0]
T_FeatureView(t, name) ==
    LET fi == T_FeatureIndex(t, name)
    IN  [err |-> fi.err, index_ |-> fi.val]

\* Measurement::FirstObject / operator[]( dip::uint )
T_FirstObject(t) == [err |-> OK, index_ |-> 0]
T_ObjectView(t, objectID) ==
    LET oi == T_ObjectIndex(t, objectID)
    IN  [err |-> oi.err, index_ |-> oi.val]

\* IteratorFeature::Feature()
IteratorFeature_Feature(t, feature) == t.features_[feature.index_ + 1]

\* IteratorFeature::operator[]( dip::uint objectID )
IteratorFeature_Cell(t, feature, objectID) ==
    LET oi == T_ObjectIndex(t, objectID)
    IN  [err |-> oi.err, feature_ |-> feature, index_ |-> oi.val]

\* IteratorFeature_Iterator_begin with the fault of stepping rows by the feature's own width
IteratorFeature_Iterator_begin_OwnWidth(t, cell) ==
    [err |-> OK,
     val |-> 0 + cell.index_ * IteratorFeature_Feature(t, cell.feature_).numberValues
               + IteratorFeature_Feature(t, cell.feature_).startColumn]

\* IteratorFeature::Iterator::begin: reads data_ directly
IteratorFeature_Iterator_begin(t, cell) ==
    [err |-> OK,
     val |-> 0 + cell.index_ * T_Stride(t) + IteratorFeature_Feature(t, cell.feature_).startColumn]

IteratorFeature_Iterator_size(t, cell) == IteratorFeature_Feature(t, cell.feature_).numberValues

\* IteratorObject::operator[]( String const& name )
IteratorObject_Cell(t, object, name) ==
    LET fi == T_FeatureIndex(t, name)
    IN  [err |-> fi.err, object_ |-> object, index_ |-> fi.val]

\* IteratorObject::Iterator::Feature()
IteratorObject_Iterator_Feature(t, cell) == t.features_[cell.index_ + 1]

\* IteratorObject_Iterator_begin with the fault of stepping rows by the number of features
IteratorObject_Iterator_begin_FeatureCount(t, cell) ==
    LET d == T_Data(t)
    IN  IF d.err # OK THEN d
        ELSE [err |-> OK,
              val |-> d.val + cell.object_.index_ * T_NumberOfFeatures(t)
                          + IteratorObject_Iterator_Feature(t, cell).startColumn]

\* IteratorObject::Iterator::begin: goes through Data()
IteratorObject_Iterator_begin(t, cell) ==
    LET d == T_Data(t)
    IN  IF d.err # OK THEN d
        ELSE [err |-> OK,
              val |-> d.val + cell.object_.index_ * T_Stride(t)
                          + IteratorObject_Iterator_Feature(t, cell).startColumn]

IteratorObject_Iterator_size(t, cell) == IteratorObject_Iterator_Feature(t, cell).numberValues

\* IteratorFeature::operator++
IteratorFeature_Increment(feature) == [feature EXCEPT !.index_ = @ + 1]

\* IsAtEnd with the fault of stopping at the last feature and not behind it
IteratorFeature_IsAtEnd_OffByOne(t, feature) == feature.index_ + 1 >= T_NumberOfFeatures(t)

\* IteratorFeature::IsAtEnd
IteratorFeature_IsAtEnd(t, feature) == feature.index_ >= T_NumberOfFeatures(t)

\* IteratorFeature::Name
IteratorFeature_Name(t, feature) == IteratorFeature_Feature(t, feature).name

\* IteratorFeature::FirstObject
IteratorFeature_FirstObject(feature) == [err |-> OK, feature_ |-> feature, index_ |-> 0]

\* IteratorFeature::Iterator::operator++ / IsAtEnd / Name / ObjectID
IteratorFeature_Iterator_Increment(cell) == [cell EXCEPT !.index_ = @ + 1]
IteratorFeature_Iterator_IsAtEnd(t, cell) == cell.index_ >= T_NumberOfObjects(t)
IteratorFeature_Iterator_Name(t, cell) == IteratorFeature_Name(t, cell.feature_)
IteratorFeature_Iterator_ObjectID(t, cell) == t.objects_[cell.index_ + 1]

\* IteratorObject::operator++ / IsAtEnd / ObjectID
IteratorObject_Increment(object) == [object EXCEPT !.index_ = @ + 1]
IteratorObject_IsAtEnd(t, object) == object.index_ >= T_NumberOfObjects(t)
IteratorObject_ObjectID(t, object) == t.objects_[object.index_ + 1]

\* IteratorObject::FirstFeature
IteratorObject_FirstFeature(object) == [err |-> OK, object_ |-> object, index_ |-> 0]

\* IteratorObject::Iterator::operator++ / IsAtEnd / Name / ObjectID
IteratorObject_Iterator_Increment(cell) == [cell EXCEPT !.index_ = @ + 1]
IteratorObject_Iterator_IsAtEnd(t, cell) == cell.index_ >= T_NumberOfFeatures(t)
IteratorObject_Iterator_Name(t, cell) == IteratorObject_Iterator_Feature(t, cell).name
IteratorObject_Iterator_ObjectID(t, cell) == IteratorObject_ObjectID(t, cell.object_)

\* table[ name ][ objectID ][ k ] and table[ objectID ][ name ][ k ]: the element addressed
T_ByFeature(t, name, objectID, k) ==
    LET view == T_FeatureView(t, name)
        cell == IteratorFeature_Cell(t, view, objectID)
        b == IteratorFeature_Iterator_begin(t, cell)
    IN  IF view.err # OK THEN [err |-> view.err, val |-> 0]
        ELSE IF cell.err # OK THEN [err |-> cell.err, val |-> 0]
        ELSE IF b.err # OK THEN b
        ELSE [err |-> OK, val |-> b.val + k]

T_ByObject(t, objectID, name, k) ==
    LET view == T_ObjectView(t, objectID)
        cell == IteratorObject_Cell(t, view, name)
        b == IteratorObject_Iterator_begin(t, cell)
    IN  IF view.err # OK THEN [err |-> view.err, val |-> 0]
        ELSE IF cell.err # OK THEN [err |-> cell.err, val |-> 0]
        ELSE IF b.err # OK THEN b
        ELSE [err |-> OK, val |-> b.val + k]

(***************************************************************************)
(* FeatureMass. The instance is its accumulators data_; nD_ is written by *)
(* Initialize and never read.                                              *)
(***************************************************************************)
\* Mass_Initialize with the fault of resizing the accumulators without clearing them
Mass_Initialize_ResizeOnly(acc, greyIsScalar, nObjects) ==
    IF ~greyIsScalar THEN [data_ |-> acc, err |-> NotScalar, out |-> <<>>]
    ELSE [data_ |-> [ii \in 1..nObjects |-> IF ii <= Len(acc) THEN acc[ii] ELSE 0],
          err |-> OK, out |-> <<"Mass">>]

\* FeatureMass::Initialize: [data_ |-> the accumulators afterwards, err |-> ..., out |-> ...]
Mass_Initialize(acc, greyIsScalar, nObjects) ==
    IF ~greyIsScalar THEN [data_ |-> acc, err |-> NotScalar, out |-> <<>>]
    ELSE [data_ |-> [ii \in 1..nObjects |-> 0], err |-> OK, out |-> <<"Mass">>]

NullPtr == [null |-> TRUE, index |-> 0]
PtrTo(index) == [null |-> FALSE, index |-> index]

\* ScanLine with the fault of keeping the previous object's pointer when the label is not
\* in objectIndices
RECURSIVE Mass_ScanLineLoop_KeepPtr(_, _, _, _, _, _, _)
Mass_ScanLineLoop_KeepPtr(acc, label, grey, objectIndices, p, objectID, data) ==
    LET fetch == label[p] > 0 /\ label[p] # objectID
        objectID1 == IF fetch THEN label[p] ELSE objectID
        data1 == IF fetch /\ objectID1 \in DOMAIN objectIndices
                 THEN PtrTo(objectIndices[objectID1])
                 ELSE data
        acc1 == IF label[p] > 0 /\ ~data1.null
                THEN [acc EXCEPT ![data1.index + 1] = @ + grey[p]]
                ELSE acc
    IN  IF p = Len(label) THEN acc1
        ELSE Mass_ScanLineLoop_KeepPtr(acc1, label, grey, objectIndices, p + 1, objectID1, data1)

\* the do-while loop of FeatureMass::ScanLine at pixel p of the line, with the locals
\* objectID and data
RECURSIVE Mass_ScanLineLoop(_, _, _, _, _, _, _)
Mass_ScanLineLoop(acc, label, grey, objectIndices, p, objectID, data) ==
    LET fetch == label[p] > 0 /\ label[p] # objectID
        objectID1 == IF fetch THEN label[p] ELSE objectID
        data1 == IF fetch
                 THEN IF objectID1 \notin DOMAIN objectIndices
                      THEN NullPtr
                      ELSE PtrTo(objectIndices[objectID1])
                 ELSE data
        acc1 == IF label[p] > 0 /\ ~data1.null
                THEN [acc EXCEPT ![data1.index + 1] = @ + grey[p]]
                ELSE acc
    IN  IF p = Len(label) THEN acc1
        ELSE Mass_ScanLineLoop(acc1, label, grey, objectIndices, p + 1, objectID1, data1)

\* FeatureMass::ScanLine: the accumulators afterwards
Mass_ScanLine(acc, label, grey, objectIndices) ==
    Mass_ScanLineLoop(acc, label, grey, objectIndices, 1, 0, NullPtr)

\* FeatureMass::Finish: the value written to *output
Mass_Finish(acc, objectIndex) == acc[objectIndex + 1]

\* FeatureMass::Cleanup: the accumulators afterwards
Mass_Cleanup(acc) == <<>>

(***************************************************************************)
(* MeasurementTool: the registry. A feature is [name, type, needsGreyValue,*)
(* deps], deps being what Dependencies() returns for a composite feature.  *)
(***************************************************************************)
FeatureNameNotKnown == "Feature name not known"

Tool == [features_ |-> tool_features_, featureIndices_ |-> tool_featureIndices_]

Tool_Exists(tool, name) == name \in DOMAIN tool.featureIndices_

\* Register with the fault of replacing the feature registered under the name
Tool_Register_Replace(tool, feature) ==
    IF ~Tool_Exists(tool, feature.name)
    THEN [features_ |-> Append(tool.features_, feature),
          featureIndices_ |-> Emplace(tool.featureIndices_, feature.name, Len(tool.features_))]
    ELSE [tool EXCEPT !.features_[tool.featureIndices_[feature.name] + 1] = feature]

\* MeasurementTool::Register: the tool afterwards
Tool_Register(tool, feature) ==
    IF ~Tool_Exists(tool, feature.name)
    THEN LET index == Len(tool.features_)
         IN  [features_ |-> Append(tool.features_, feature),
              featureIndices_ |-> Emplace(tool.featureIndices_, feature.name, index)]
    ELSE tool

\* Index with the fault of answering a name that is not registered with index 0
Tool_Index_DefaultOnMiss(tool, name) ==
    IF name \notin DOMAIN tool.featureIndices_ THEN [err |-> OK, val |-> 0]
    ELSE [err |-> OK, val |-> tool.featureIndices_[name]]

\* MeasurementTool::Index
Tool_Index(tool, name) ==
    IF name \notin DOMAIN tool.featureIndices_ THEN [err |-> FeatureNameNotKnown, val |-> 0]
    ELSE [err |-> OK, val |-> tool.featureIndices_[name]]

\* MeasurementTool::Features
Tool_Features(tool) ==
    [ii \in 1..Len(tool.features_) |->
        [name |-> tool.features_[ii].name, needsGreyValue |-> tool.features_[ii].needsGreyValue]]

\* the registered feature of a name known to be registered
Tool_Feature(tool, name) == tool.features_[Tool_Index(tool, name).val + 1]

(***************************************************************************)
(* The dependency resolver of Measure, after section 4.4 of the            *)
(* specification: a recursive visit in the order of the request, that      *)
(* looks the name up, visits the dependencies of a composite feature and   *)
(* then emits the feature; a name that is met again while it is still open *)
(* is a cycle. The state of the visit is [out, open, err].                 *)
(***************************************************************************)
CyclicDependency == "Cyclic dependency"

Contains(seq, x) == \E i \in 1..Len(seq) : seq[i] = x

RECURSIVE Resolve_Visit(_, _, _)
RECURSIVE Resolve_VisitAll(_, _, _, _)

\* the visit with the fault of emitting a composite feature before its dependencies
RECURSIVE Resolve_Visit_EmitFirst(_, _, _)
Resolve_Visit_EmitFirst(tool, st, name) ==
    IF st.err # OK THEN st
    ELSE IF Tool_Index(tool, name).err # OK THEN [st EXCEPT !.err = FeatureNameNotKnown]
    ELSE IF name \in st.open THEN [st EXCEPT !.err = CyclicDependency]
    ELSE IF Contains(st.out, name) THEN st
    ELSE LET feature == Tool_Feature(tool, name)
             opened == [st EXCEPT !.open = @ \cup {name}, !.out = Append(@, name)]
             after == IF feature.type = "COMPOSITE"
                      THEN Resolve_VisitAll(tool, opened, feature.deps, 1)
                      ELSE opened
         IN  IF after.err # OK THEN after
             ELSE [after EXCEPT !.open = @ \ {name}]

\* the visit with the fault of not testing whether the feature was emitted before
RECURSIVE Resolve_Visit_NoEmittedTest(_, _, _)
Resolve_Visit_NoEmittedTest(tool, st, name) ==
    IF st.err # OK THEN st
    ELSE IF Tool_Index(tool, name).err # OK THEN [st EXCEPT !.err = FeatureNameNotKnown]
    ELSE IF name \in st.open THEN [st EXCEPT !.err = CyclicDependency]
    ELSE LET feature == Tool_Feature(tool, name)
             opened == [st EXCEPT !.open = @ \cup {name}]
             after == IF feature.type = "COMPOSITE"
                      THEN Resolve_VisitAll(tool, opened, feature.deps, 1)
                      ELSE opened
         IN  IF after.err # OK THEN after
             ELSE [after EXCEPT !.open = @ \ {name}, !.out = Append(@, name)]

\* the visit with the fault of taking every second visit of a name for a cycle
RECURSIVE Resolve_Visit_CycleOnRevisit(_, _, _)
Resolve_Visit_CycleOnRevisit(tool, st, name) ==
    IF st.err # OK THEN st
    ELSE IF Tool_Index(tool, name).err # OK THEN [st EXCEPT !.err = FeatureNameNotKnown]
    ELSE IF name \in st.open \/ Contains(st.out, name) THEN [st EXCEPT !.err = CyclicDependency]
    ELSE LET feature == Tool_Feature(tool, name)
             opened == [st EXCEPT !.open = @ \cup {name}]
             after == IF feature.type = "COMPOSITE"
                      THEN Resolve_VisitAll(tool, opened, feature.deps, 1)
                      ELSE opened
         IN  IF after.err # OK THEN after
             ELSE [after EXCEPT !.open = @ \ {name}, !.out = Append(@, name)]

Resolve_Visit(tool, st, name) ==
    IF st.err # OK THEN st
    ELSE IF Tool_Index(tool, name).err # OK THEN [st EXCEPT !.err = FeatureNameNotKnown]
    ELSE IF name \in st.open THEN [st EXCEPT !.err = CyclicDependency]
    ELSE IF Contains(st.out, name) THEN st
    ELSE LET feature == Tool_Feature(tool, name)
             opened == [st EXCEPT !.open = @ \cup {name}]
             after == IF feature.type = "COMPOSITE"
                      THEN Resolve_VisitAll(tool, opened, feature.deps, 1)
                      ELSE opened
         IN  IF after.err # OK THEN after
             ELSE [after EXCEPT !.open = @ \ {name}, !.out = Append(@, name)]

Resolve_VisitAll(tool, st, names, ii) ==
    IF ii > Len(names) THEN st
    ELSE Resolve_VisitAll(tool, Resolve_Visit(tool, st, names[ii]), names, ii + 1)

Resolve(tool, features) ==
    Resolve_VisitAll(tool, [out |-> <<>>, open |-> {}, err |-> OK], features, 1)

\* the columns of the result table: AddFeature for each resolved feature, in order
RECURSIVE Resolve_Columns(_, _, _)
Resolve_Columns(t, names, ii) ==
    IF ii > Len(names) THEN t
    ELSE Resolve_Columns(T_AddFeature(t, names[ii], <<names[ii]>>).t, names, ii + 1)

(***************************************************************************)
(* The table of the state, and one action per member function.             *)
(***************************************************************************)
IsForged == T_IsForged(Table)
Stride == T_Stride(Table)
NumberOfValues == T_NumberOfValues(Table)
NumberOfFeatures == T_NumberOfFeatures(Table)
NumberOfObjects == T_NumberOfObjects(Table)
FeatureExists(name) == T_FeatureExists(Table, name)
ObjectExists(objectID) == T_ObjectExists(Table, objectID)

Becomes(r) ==
    /\ objects_' = r.t.objects_
    /\ objectIndices_' = r.t.objectIndices_
    /\ features_' = r.t.features_
    /\ values_' = r.t.values_
    /\ featureIndices_' = r.t.featureIndices_
    /\ data_' = r.t.data_
    /\ err' = r.err
    /\ lastChanged' = (r.t # Table)

AddFeature(name, values) ==
    /\ lastOp' = "AddFeature"
    /\ Becomes(T_AddFeature(Table, name, values))
    /\ UNCHANGED <<massVars, toolVars, measureVars>>

EnsureFeature(name, values) ==
    /\ lastOp' = "EnsureFeature"
    /\ Becomes(T_EnsureFeature(Table, name, values))
    /\ UNCHANGED <<massVars, toolVars, measureVars>>

AddObjectIDs(objectIDs) ==
    /\ lastOp' = "AddObjectIDs"
    /\ Becomes(T_AddObjectIDs(Table, objectIDs))
    /\ UNCHANGED <<massVars, toolVars, measureVars>>

Forge ==
    /\ lastOp' = "Forge"
    /\ Becomes(T_Forge(Table))
    /\ UNCHANGED <<massVars, toolVars, measureVars>>

DoAddFeature == \E name \in FeatureNames, values \in ValueArrays : AddFeature(name, values)
DoEnsureFeature == \E name \in FeatureNames, values \in ValueArrays : EnsureFeature(name, values)
DoAddObjectIDs == \E objectIDs \in IdLists : AddObjectIDs(objectIDs)

\* a tool nothing is registered with and that has resolved nothing
ToolIdle ==
    /\ tool_features_ = <<>>
    /\ tool_featureIndices_ = EmptyMap
    /\ request = <<>>
    /\ resolved = [out |-> <<>>, open |-> {}, err |-> OK]
    /\ toolPc = "registering"

\* no Measure call is in progress
MeasureIdle ==
    /\ m_label = <<>>
    /\ m_grey = [kind |-> "raw", lines |-> <<>>]
    /\ m_objectIDs = <<>>
    /\ m_pc = "idle"
    /\ m_next = 0
    /\ m_initialized = <<>>
    /\ m_cleaned = <<>>
    /\ m_error = OK
    /\ m_calls = <<>>
    /\ size_data_ = <<>>
    /\ paint = [featureValues |-> [err |-> OK, index_ |-> 0], out |-> <<>>]
    /\ tools = <<>>
    /\ calls = <<>>
    /\ cursor = [views |-> <<>>, cell |-> [kind |-> "none", parent |-> 0, index_ |-> 0]]
    /\ offs = [pc |-> "idle"]

\* a FeatureMass instance that is not in use
MassIdle ==
    /\ mass_data_ = <<>>
    /\ massPhase = "idle"
    /\ massScanned = 0
    /\ massExpected = <<>>
    /\ massFinished = {}

Init ==
    /\ objects_ = <<>>
    /\ objectIndices_ = EmptyMap
    /\ features_ = <<>>
    /\ values_ = <<>>
    /\ featureIndices_ = EmptyMap
    /\ data_ = <<>>
    /\ lastOp = "Measurement"
    /\ err = OK
    /\ lastChanged = FALSE
    /\ MassIdle
    /\ ToolIdle
    /\ MeasureIdle

Next ==
    \/ DoAddFeature
    \/ DoEnsureFeature
    \/ DoAddObjectIDs
    \/ Forge

Spec == Init /\ [][Next]_vars

(***************************************************************************)
(* The table with its lookups. A lookup is a const member function; what   *)
(* it can do to the table is what the find() of its map does to the map.   *)
(***************************************************************************)
Looks(e, fi, oi) ==
    /\ err' = e
    /\ featureIndices_' = fi
    /\ objectIndices_' = oi
    /\ UNCHANGED <<objects_, features_, values_, data_>>
    /\ lastChanged' = (<<fi, oi>> # <<featureIndices_, objectIndices_>>)
    /\ UNCHANGED <<massVars, toolVars, measureVars>>

FeatureIndex(name) ==
    /\ lastOp' = "lookup"
    /\ Looks(T_FeatureIndex(Table, name).err, MapFind(featureIndices_, name).m, objectIndices_)

ValueIndex(name) ==
    /\ lastOp' = "lookup"
    /\ Looks(T_ValueIndex(Table, name).err, MapFind(featureIndices_, name).m, objectIndices_)

Values(name) ==
    /\ lastOp' = "lookup"
    /\ Looks(T_ValuesOf(Table, name).err, MapFind(featureIndices_, name).m, objectIndices_)

NumberOfValuesOf(name) ==
    /\ lastOp' = "lookup"
    /\ Looks(T_NumberOfValuesOf(Table, name).err, MapFind(featureIndices_, name).m,
             objectIndices_)

FeatureSubscript(name) ==
    /\ lastOp' = "lookup"
    /\ Looks(T_FeatureView(Table, name).err, MapFind(featureIndices_, name).m, objectIndices_)

ObjectIndex(objectID) ==
    /\ lastOp' = "lookup"
    /\ Looks(T_ObjectIndex(Table, objectID).err, featureIndices_,
             MapFind(objectIndices_, objectID).m)

ObjectSubscript(objectID) ==
    /\ lastOp' = "lookup"
    /\ Looks(T_ObjectView(Table, objectID).err, featureIndices_,
             MapFind(objectIndices_, objectID).m)

DoFeatureIndex == \E name \in FeatureNames : FeatureIndex(name)
DoValueIndex == \E name \in FeatureNames : ValueIndex(name)
DoValues == \E name \in FeatureNames : Values(name)
DoNumberOfValuesOf == \E name \in FeatureNames : NumberOfValuesOf(name)
DoFeatureSubscript == \E name \in FeatureNames : FeatureSubscript(name)
DoObjectIndex == \E objectID \in ObjectIDSet : ObjectIndex(objectID)
DoObjectSubscript == \E objectID \in ObjectIDSet : ObjectSubscript(objectID)

NextLookup ==
    \/ DoAddFeature
    \/ DoEnsureFeature
    \/ DoAddObjectIDs
    \/ Forge
    \/ DoFeatureIndex
    \/ DoValueIndex
    \/ DoValues
    \/ DoNumberOfValuesOf
    \/ DoFeatureSubscript
    \/ DoObjectIndex
    \/ DoObjectSubscript

SpecLookup == Init /\ [][NextLookup]_vars

(***************************************************************************)
(* FeatureMass on its own: one instance is given the calls the driver      *)
(* gives a line-based feature. The table holds the columns Size and Mass   *)
(* for the rows of the requested object IDs; each run starts on a freshly  *)
(* forged table. The image is the lines handed to ScanLine during the run: *)
(* every image of MassNumLines lines, in every order of its lines. After   *)
(* an Initialize that threw, the run is over: what follows is Cleanup or   *)
(* the Initialize of another run.                                          *)
(***************************************************************************)
RECURSIVE SumOver(_, _)
SumOver(S, f) ==
    IF S = {} THEN 0
    ELSE LET x == CHOOSE y \in S : TRUE
         IN  f[x] + SumOver(S \ {x}, f)

\* the intensity of the pixels of a line that carry the label objectID
LineMass(label, grey, objectID) ==
    SumOver({p \in 1..Len(label) : label[p] = objectID}, grey)

MassTable(objectIDs) ==
    LET a == T_AddObjectIDs(EmptyTable, objectIDs).t
        b == T_AddFeature(a, "Size", <<"Size">>).t
        c == T_AddFeature(b, "Mass", <<"Mass">>).t
    IN  T_Forge(c).t

SetTable(t) ==
    /\ objects_' = t.objects_
    /\ objectIndices_' = t.objectIndices_
    /\ features_' = t.features_
    /\ values_' = t.values_
    /\ featureIndices_' = t.featureIndices_
    /\ data_' = t.data_

\* the buffer element of the Mass cell of a row
MassCell(t, objectIndex) == T_ByObject(t, t.objects_[objectIndex + 1], "Mass", 0).val

\* the rows of the run's table: one or two distinct object IDs, in either order
MassRowLists == {ids \in IdLists : IsInjective(ids) /\ Len(ids) \in {1, 2}}

InitMass ==
    /\ \E objectIDs \in MassRowLists :
           /\ objects_ = MassTable(objectIDs).objects_
           /\ objectIndices_ = MassTable(objectIDs).objectIndices_
           /\ features_ = MassTable(objectIDs).features_
           /\ values_ = MassTable(objectIDs).values_
           /\ featureIndices_ = MassTable(objectIDs).featureIndices_
           /\ data_ = MassTable(objectIDs).data_
    /\ lastOp = "FeatureMass"
    /\ err = OK
    /\ lastChanged = FALSE
    /\ MassIdle
    /\ ToolIdle
    /\ MeasureIdle

MassInitialize(greyIsScalar) ==
    LET r == Mass_Initialize(mass_data_, greyIsScalar, NumberOfObjects)
    IN  /\ lastOp' = "Initialize"
        /\ err' = r.err
        /\ mass_data_' = r.data_
        /\ IF r.err = OK
           THEN /\ massPhase' = "initialized"
                /\ massScanned' = 0
                /\ massExpected' = [ii \in 1..NumberOfObjects |-> 0]
                /\ massFinished' = {}
                /\ SetTable(MassTable(objects_))
           ELSE /\ massPhase' = "failed"
                /\ UNCHANGED <<massScanned, massExpected, massFinished, tableVars>>
        /\ UNCHANGED <<toolVars, measureVars>>
        /\ lastChanged' = (tableVars' # tableVars)

MassScanLine(label) ==
    /\ massPhase = "initialized"
    /\ massScanned < MassNumLines
    /\ lastOp' = "ScanLine"
    /\ err' = OK
    /\ mass_data_' = Mass_ScanLine(mass_data_, label, GreyLine(Len(label)), objectIndices_)
    /\ massScanned' = massScanned + 1
    /\ massExpected' = [ii \in 1..NumberOfObjects |->
                           massExpected[ii] + LineMass(label, GreyLine(Len(label)), objects_[ii])]
    /\ UNCHANGED <<massPhase, massFinished, tableVars, toolVars, measureVars>>
    /\ lastChanged' = (tableVars' # tableVars)

MassFinish(objectIndex) ==
    /\ massPhase = "initialized"
    /\ massScanned = MassNumLines
    /\ objectIndex \notin massFinished
    /\ lastOp' = "Finish"
    /\ err' = OK
    /\ data_' = [data_ EXCEPT ![MassCell(Table, objectIndex) + 1] = Mass_Finish(mass_data_, objectIndex)]
    /\ massFinished' = massFinished \cup {objectIndex}
    /\ UNCHANGED <<objects_, objectIndices_, features_, values_, featureIndices_>>
    /\ UNCHANGED <<mass_data_, massPhase, massScanned, massExpected, toolVars, measureVars>>
    /\ lastChanged' = (tableVars' # tableVars)

MassCleanup ==
    /\ massPhase # "idle"
    /\ lastOp' = "Cleanup"
    /\ err' = OK
    /\ mass_data_' = Mass_Cleanup(mass_data_)
    /\ massPhase' = "idle"
    /\ massScanned' = 0
    /\ massExpected' = <<>>
    /\ massFinished' = {}
    /\ UNCHANGED <<tableVars, toolVars, measureVars>>
    /\ lastChanged' = (tableVars' # tableVars)

DoMassInitialize == \E greyIsScalar \in BOOLEAN : MassInitialize(greyIsScalar)
DoMassScanLine == \E label \in LabelLines : MassScanLine(label)
DoMassFinish == \E objectIndex \in 0..(NumberOfObjects - 1) : MassFinish(objectIndex)

NextMass ==
    \/ DoMassInitialize
    \/ DoMassScanLine
    \/ DoMassFinish
    \/ MassCleanup
    \/ Forge

SpecMass == InitMass /\ [][NextMass]_vars

(***************************************************************************)
(* The tool: features are registered, then a request is resolved and the   *)
(* columns of the result table are laid out in the resolved order.         *)
(***************************************************************************)
ResolveNames == {"Size", "Perimeter", "Ratio"}
NameLists(n) == {names \in SeqsUpTo(ResolveNames, n) : IsInjective(names)}

\* the features that can be registered: a feature with dependencies is a composite one
RegistrableFeatures ==
    {[name |-> name,
      type |-> IF deps = <<>> THEN "LINE_BASED" ELSE "COMPOSITE",
      needsGreyValue |-> FALSE,
      deps |-> deps] : name \in ResolveNames, deps \in NameLists(MaxDeps)}

InitTool ==
    /\ objects_ = <<>>
    /\ objectIndices_ = EmptyMap
    /\ features_ = <<>>
    /\ values_ = <<>>
    /\ featureIndices_ = EmptyMap
    /\ data_ = <<>>
    /\ lastOp = "MeasurementTool"
    /\ err = OK
    /\ lastChanged = FALSE
    /\ MassIdle
    /\ ToolIdle
    /\ MeasureIdle

Register(feature) ==
    /\ toolPc = "registering"
    /\ lastOp' = "Register"
    /\ err' = OK
    /\ tool_features_' = Tool_Register(Tool, feature).features_
    /\ tool_featureIndices_' = Tool_Register(Tool, feature).featureIndices_
    /\ UNCHANGED <<request, resolved, toolPc, tableVars, massVars, measureVars>>
    /\ lastChanged' = (tableVars' # tableVars)

ResolveRequest(features) ==
    LET r == Resolve(Tool, features)
    IN  /\ toolPc = "registering"
        /\ lastOp' = "Measure"
        /\ err' = r.err
        /\ request' = features
        /\ resolved' = r
        /\ toolPc' = "resolved"
        /\ SetTable(IF r.err = OK THEN Resolve_Columns(EmptyTable, r.out, 1) ELSE EmptyTable)
        /\ UNCHANGED <<tool_features_, tool_featureIndices_, massVars, measureVars>>
        /\ lastChanged' = (tableVars' # tableVars)

DoRegister == \E feature \in RegistrableFeatures : Register(feature)
DoResolveRequest == \E features \in NameLists(MaxRequest) : ResolveRequest(features)

NextTool ==
    \/ DoRegister
    \/ DoResolveRequest

SpecTool == InitTool /\ [][NextTool]_vars

(***************************************************************************)
(* The driver, MeasurementTool::Measure, after section 4.5 of the          *)
(* specification. The tool is constructed with a catalog of seven         *)
(* features: Size and Mass (line-based), Perimeter (chain-code based),     *)
(* Hull (convex-hull based), Top (image based), Ratio, a composite of Size *)
(* and Perimeter, and Shape, a composite of Ratio, Hull and Top. Mass is   *)
(* FeatureMass; Size accumulates the pixel count the way FeatureMass       *)
(* accumulates intensity.                                                  *)
(***************************************************************************)
LabelNotForged == "Label image is not forged"
GreyRequired == "Measurement feature requires grey-value image"
UnsupportedInput == "Feature does not support the images"
PassError == "Error in a measurement pass"

Catalog ==
    <<[name |-> "Size", type |-> "LINE_BASED", needsGreyValue |-> FALSE, deps |-> <<>>],
      [name |-> "Mass", type |-> "LINE_BASED", needsGreyValue |-> TRUE, deps |-> <<>>],
      [name |-> "Perimeter", type |-> "CHAINCODE_BASED", needsGreyValue |-> FALSE, deps |-> <<>>],
      [name |-> "Hull", type |-> "CONVEXHULL_BASED", needsGreyValue |-> FALSE, deps |-> <<>>],
      [name |-> "Top", type |-> "IMAGE_BASED", needsGreyValue |-> FALSE, deps |-> <<>>],
      [name |-> "Ratio", type |-> "COMPOSITE", needsGreyValue |-> FALSE,
       deps |-> <<"Size", "Perimeter">>],
      [name |-> "Shape", type |-> "COMPOSITE", needsGreyValue |-> FALSE,
       deps |-> <<"Ratio", "Hull", "Top">>]>>

\* the constructor of the tool: Register for each feature of the catalog
RECURSIVE Tool_Construct(_, _, _)
Tool_Construct(tool, catalog, ii) ==
    IF ii > Len(catalog) THEN tool
    ELSE Tool_Construct(Tool_Register(tool, catalog[ii]), catalog, ii + 1)

\* the feature type of a resolved name
TypeOf(name) == Tool_Feature(Tool, name).type

\* the object IDs of the call with repeated IDs dropped: the first occurrence stays
RECURSIVE M_Dedup(_, _, _)
M_Dedup(objectIDs, ii, out) ==
    IF ii > Len(objectIDs) THEN out
    ELSE M_Dedup(objectIDs, ii + 1,
                 IF Contains(out, objectIDs[ii]) THEN out ELSE Append(out, objectIDs[ii]))

\* the object IDs met when the label image is scanned: the positive labels
RECURSIVE M_ScanLabels(_, _, _, _)
M_ScanLabels(label, y, p, found) ==
    IF y > Len(label) THEN found
    ELSE IF p > Len(label[y]) THEN M_ScanLabels(label, y + 1, 1, found)
    ELSE M_ScanLabels(label, y, p + 1,
                      IF label[y][p] > 0 THEN found \cup {label[y][p]} ELSE found)

\* a set of IDs as a list, smallest first
RECURSIVE M_SortAscending(_)
M_SortAscending(S) ==
    IF S = {} THEN <<>>
    ELSE LET least == CHOOSE x \in S : \A y \in S : x <= y
         IN  <<least>> \o M_SortAscending(S \ {least})

M_GetObjectLabels(label) == M_SortAscending(M_ScanLabels(label, 1, 1, {}))

\* the rows of the result: the caller's IDs, or every object of the label image
M_Objects(label, objectIDs) ==
    IF objectIDs = <<>> THEN M_GetObjectLabels(label) ELSE M_Dedup(objectIDs, 1, <<>>)

\* Initialize of the Size feature; accepts says whether it accepts the images
Size_Initialize(acc, accepts, nObjects) ==
    IF ~accepts THEN [data_ |-> acc, err |-> UnsupportedInput, out |-> <<>>]
    ELSE [data_ |-> [ii \in 1..nObjects |-> 0], err |-> OK, out |-> <<"Size">>]

\* Initialize of a feature that keeps no accumulators (all but Size and Mass)
Plain_Initialize(name, accepts) ==
    IF ~accepts THEN [err |-> UnsupportedInput, out |-> <<>>]
    ELSE [err |-> OK, out |-> <<name>>]

\* Size::ScanLine: FeatureMass::ScanLine with every pixel weighing one
Size_ScanLine(acc, label, objectIndices) ==
    Mass_ScanLine(acc, label, [p \in 1..Len(label) |-> 1], objectIndices)

\* the number of pixels of an object in the label image
RECURSIVE M_PixelCount(_, _, _)
M_PixelCount(label, objectID, y) ==
    IF y > Len(label) THEN 0
    ELSE Cardinality({p \in 1..Len(label[y]) : label[y][p] = objectID})
         + M_PixelCount(label, objectID, y + 1)

\* Perimeter::Measure on the chain code of an object: here the object's boundary
\* pixels, which in images this small are all its pixels
Perimeter_Measure(label, objectID) == M_PixelCount(label, objectID, 1)

\* Hull::Measure on the convex hull of an object: here the number of image lines
\* the object has pixels on
Hull_Measure(label, objectID) ==
    Cardinality({y \in 1..Len(label) : \E p \in 1..Len(label[y]) : label[y][p] = objectID})

\* Top::Measure for one row of its column: the first image line the object has
\* pixels on, zero for an object without pixels
Top_Measure(label, objectID) ==
    LET lines == {y \in 1..Len(label) : \E p \in 1..Len(label[y]) : label[y][p] = objectID}
    IN  IF lines = {} THEN 0 ELSE CHOOSE y \in lines : \A z \in lines : y <= z

\* Ratio::Measure on the object's row: Size over Perimeter, zero where undefined
Ratio_Measure(size, perimeter) == IF perimeter = 0 THEN 0 ELSE size \div perimeter

\* Shape::Measure on the object's row
Shape_Measure(ratio, hull, top) == ratio + hull + top

\* the table with one cell written through the object view
WriteCell(t, objectID, name, value) ==
    [t EXCEPT !.data_[T_ByObject(t, objectID, name, 0).val + 1] = value]

\* the value of a cell read through the object view
ReadCell(t, objectID, name) == t.data_[T_ByObject(t, objectID, name, 0).val + 1]

\* Size::Finish
Size_Finish(acc, objectIndex) == acc[objectIndex + 1]

\* the objects a chain code is formed for: those with pixels in the label image
ChainCoded == M_ScanLabels(m_label, 1, 1, {})

\* what the Finish or Measure of a feature writes into the cell of a row
M_Measure(t, name, row) ==
    CASE name = "Size" -> Size_Finish(size_data_, row - 1)
      [] name = "Mass" -> Mass_Finish(mass_data_, row - 1)
      [] name = "Perimeter" -> Perimeter_Measure(m_label, t.objects_[row])
      [] name = "Hull" -> Hull_Measure(m_label, t.objects_[row])
      [] name = "Top" -> Top_Measure(m_label, t.objects_[row])
      [] name = "Ratio" -> Ratio_Measure(ReadCell(t, t.objects_[row], "Size"),
                                         ReadCell(t, t.objects_[row], "Perimeter"))
      [] name = "Shape" -> Shape_Measure(ReadCell(t, t.objects_[row], "Ratio"),
                                         ReadCell(t, t.objects_[row], "Hull"),
                                         ReadCell(t, t.objects_[row], "Top"))

\* one pass over the table that is not the composite pass: for each object, each
\* feature of the type in resolved order writes its cell; in the chain-code and
\* convex-hull passes the objects without a chain code are left alone. No feature
\* of these types reads a cell, so every value is computed on the table as it is
\* before the pass.
M_Pass(t, type) ==
    LET cells == {c \in (1..Len(t.objects_)) \X (1..Len(resolved.out)) :
                     /\ TypeOf(resolved.out[c[2]]) = type
                     /\ type \in {"CHAINCODE_BASED", "CONVEXHULL_BASED"}
                            => t.objects_[c[1]] \in ChainCoded}
        element(c) == T_ByObject(t, t.objects_[c[1]], resolved.out[c[2]], 0).val + 1
        written(ii) == {c \in cells : element(c) = ii}
    IN  [t EXCEPT !.data_ =
            [ii \in 1..Len(t.data_) |->
                IF written(ii) = {} THEN t.data_[ii]
                ELSE LET c == CHOOSE c \in written(ii) : TRUE
                     IN  M_Measure(t, resolved.out[c[2]], c[1])]]

\* the composite pass from feature f of a row on, with the fault of taking the
\* features of a row in the reverse of the resolved order
RECURSIVE M_CompositePass_Reversed(_, _, _)
M_CompositePass_Reversed(t, row, f) ==
    IF row > Len(t.objects_) THEN t
    ELSE IF f > Len(resolved.out) THEN M_CompositePass_Reversed(t, row + 1, 1)
    ELSE LET name == resolved.out[Len(resolved.out) + 1 - f]
         IN  IF TypeOf(name) # "COMPOSITE" THEN M_CompositePass_Reversed(t, row, f + 1)
             ELSE M_CompositePass_Reversed(
                      WriteCell(t, t.objects_[row], name, M_Measure(t, name, row)), row, f + 1)

\* the composite pass from feature f of a row on: for each object, each composite
\* feature in resolved order writes its cell, computed on the table as it is then
RECURSIVE M_CompositePass(_, _, _)
M_CompositePass(t, row, f) ==
    IF row > Len(t.objects_) THEN t
    ELSE IF f > Len(resolved.out) THEN M_CompositePass(t, row + 1, 1)
    ELSE LET name == resolved.out[f]
         IN  IF TypeOf(name) # "COMPOSITE" THEN M_CompositePass(t, row, f + 1)
             ELSE M_CompositePass(
                      WriteCell(t, t.objects_[row], name, M_Measure(t, name, row)), row, f + 1)

\* what no step of Measure changes
outsideMeasure ==
    <<callVars, tool_features_, tool_featureIndices_, toolPc,
      massPhase, massScanned, massExpected, massFinished, paint, tools, calls, cursor,
      offs>>
arguments == <<m_label, m_grey, m_objectIDs, request>>

\* steps 1 to 3 and the rows of step 4: validate, resolve, determine the objects
Measure(label, grey, features, objectIDs) ==
    LET r == Resolve(Tool, features)
        needsGrey == \E ii \in 1..Len(r.out) : Tool_Feature(Tool, r.out[ii]).needsGreyValue
        a == T_AddObjectIDs(EmptyTable, M_Objects(label, objectIDs))
        e == IF label = <<>> THEN LabelNotForged
             ELSE IF r.err # OK THEN r.err
             ELSE IF needsGrey /\ grey.kind = "raw" THEN GreyRequired
             ELSE a.err
    IN  /\ m_pc = "idle"
        /\ m_label' = label
        /\ m_grey' = grey
        /\ m_objectIDs' = objectIDs
        /\ request' = features
        /\ resolved' = r
        /\ m_error' = e
        /\ SetTable(IF e = OK THEN a.t ELSE EmptyTable)
        /\ m_pc' = IF e # OK THEN "unwind" ELSE IF r.out = <<>> THEN "forge" ELSE "initialize"
        /\ m_next' = 1
        /\ UNCHANGED <<m_initialized, m_cleaned, size_data_, mass_data_, outsideMeasure, m_calls>>

\* step 4: Initialize of the next resolved feature, and its columns
M_Initialize(accepts) ==
    LET name == resolved.out[m_next]
        r == IF name = "Mass"
             THEN Mass_Initialize(mass_data_, m_grey.kind = "scalar", NumberOfObjects)
             ELSE IF name = "Size" THEN Size_Initialize(size_data_, accepts, NumberOfObjects)
             ELSE Plain_Initialize(name, accepts)
        a == T_AddFeature(Table, name, r.out)
    IN  /\ m_pc = "initialize"
        /\ name = "Mass" => accepts
        /\ mass_data_' = IF name = "Mass" THEN r.data_ ELSE mass_data_
        /\ size_data_' = IF name = "Size" THEN r.data_ ELSE size_data_
        /\ IF r.err # OK
           THEN /\ m_error' = r.err
                /\ m_pc' = "unwind"
                /\ UNCHANGED <<tableVars, m_initialized, m_next>>
           ELSE /\ m_initialized' = Append(m_initialized, name)
                /\ SetTable(a.t)
                /\ m_error' = a.err
                /\ m_pc' = IF a.err # OK THEN "unwind"
                           ELSE IF m_next = Len(resolved.out) THEN "forge" ELSE "initialize"
                /\ m_next' = m_next + 1
        /\ UNCHANGED <<arguments, resolved, m_cleaned, outsideMeasure, m_calls>>

\* step 5: Forge
M_Forge ==
    LET r == T_Forge(Table)
    IN  /\ m_pc = "forge"
        /\ SetTable(r.t)
        /\ m_error' = r.err
        /\ m_pc' = IF r.err # OK THEN "unwind" ELSE "scan"
        /\ m_next' = 1
        /\ UNCHANGED <<arguments, resolved, m_initialized, m_cleaned, size_data_, mass_data_,
                       outsideMeasure, m_calls>>

\* the line-based features of the request, in resolved order
M_LineBased == SelectSeq(resolved.out, LAMBDA name : TypeOf(name) = "LINE_BASED")

\* the ScanLine calls made for image line y: one per line-based feature
M_ScanLineCalls(y) ==
    [f \in 1..Len(M_LineBased) |-> [call |-> "ScanLine", feature |-> M_LineBased[f], arg |-> y]]

\* the Finish calls made from a row on: for each object, one per line-based feature,
\* with the index of the row
RECURSIVE M_FinishCalls(_)
M_FinishCalls(row) ==
    IF row > Len(objects_) THEN <<>>
    ELSE [f \in 1..Len(M_LineBased) |->
             [call |-> "Finish", feature |-> M_LineBased[f], arg |-> row - 1]]
         \o M_FinishCalls(row + 1)

\* M_ScanLine with the fault of ending the traversal one line early
M_ScanLine_EndsEarly ==
    /\ m_pc = "scan"
    /\ size_data_' = IF Contains(resolved.out, "Size")
                     THEN Size_ScanLine(size_data_, m_label[m_next], objectIndices_)
                     ELSE size_data_
    /\ mass_data_' = IF Contains(resolved.out, "Mass")
                     THEN Mass_ScanLine(mass_data_, m_label[m_next], m_grey.lines[m_next],
                                        objectIndices_)
                     ELSE mass_data_
    /\ m_calls' = m_calls \o M_ScanLineCalls(m_next)
    /\ m_pc' = IF m_next >= Len(m_label) - 1 THEN "finish" ELSE "scan"
    /\ m_next' = m_next + 1
    /\ UNCHANGED <<tableVars, arguments, resolved, m_initialized, m_cleaned, m_error,
                   outsideMeasure>>

\* step 6, scanline pass: one image line given to every line-based feature
M_ScanLine ==
    /\ m_pc = "scan"
    /\ size_data_' = IF Contains(resolved.out, "Size")
                     THEN Size_ScanLine(size_data_, m_label[m_next], objectIndices_)
                     ELSE size_data_
    /\ mass_data_' = IF Contains(resolved.out, "Mass")
                     THEN Mass_ScanLine(mass_data_, m_label[m_next], m_grey.lines[m_next],
                                        objectIndices_)
                     ELSE mass_data_
    /\ m_calls' = m_calls \o M_ScanLineCalls(m_next)
    /\ m_pc' = IF m_next = Len(m_label) THEN "finish" ELSE "scan"
    /\ m_next' = m_next + 1
    /\ UNCHANGED <<tableVars, arguments, resolved, m_initialized, m_cleaned, m_error,
                   outsideMeasure>>

\* step 6, after the traversal: Finish per object and line-based feature
M_Finish ==
    /\ m_pc = "finish"
    /\ SetTable(M_Pass(Table, "LINE_BASED"))
    /\ m_calls' = m_calls \o M_FinishCalls(1)
    /\ m_pc' = "chaincode"
    /\ UNCHANGED <<arguments, resolved, m_next, m_initialized, m_cleaned, m_error,
                   size_data_, mass_data_, outsideMeasure>>

\* step 6, chain-code pass; an error in a pass propagates
M_ChainCode(fails) ==
    /\ m_pc = "chaincode"
    /\ fails => \E f \in 1..Len(resolved.out) : TypeOf(resolved.out[f]) = "CHAINCODE_BASED"
    /\ IF fails
       THEN /\ m_error' = PassError
            /\ m_pc' = "unwind"
            /\ UNCHANGED tableVars
       ELSE /\ SetTable(M_Pass(Table, "CHAINCODE_BASED"))
            /\ m_pc' = "convexhull"
            /\ UNCHANGED m_error
    /\ UNCHANGED <<arguments, resolved, m_next, m_initialized, m_cleaned,
                   size_data_, mass_data_, outsideMeasure, m_calls>>

\* step 6, convex-hull pass
M_ConvexHull ==
    /\ m_pc = "convexhull"
    /\ SetTable(M_Pass(Table, "CONVEXHULL_BASED"))
    /\ m_pc' = "image"
    /\ UNCHANGED <<arguments, resolved, m_next, m_initialized, m_cleaned, m_error,
                   size_data_, mass_data_, outsideMeasure, m_calls>>

\* step 6, whole-image pass
M_Image ==
    /\ m_pc = "image"
    /\ SetTable(M_Pass(Table, "IMAGE_BASED"))
    /\ m_pc' = "composite"
    /\ UNCHANGED <<arguments, resolved, m_next, m_initialized, m_cleaned, m_error,
                   size_data_, mass_data_, outsideMeasure, m_calls>>

\* step 6, composite pass
M_Composite ==
    /\ m_pc = "composite"
    /\ SetTable(M_CompositePass(Table, 1, 1))
    /\ m_pc' = "cleanup"
    /\ m_next' = 1
    /\ UNCHANGED <<arguments, resolved, m_initialized, m_cleaned, m_error,
                   size_data_, mass_data_, outsideMeasure, m_calls>>

\* Cleanup of one feature
Feature_Cleanup(name) ==
    /\ mass_data_' = IF name = "Mass" THEN Mass_Cleanup(mass_data_) ELSE mass_data_
    /\ size_data_' = IF name = "Size" THEN <<>> ELSE size_data_
    /\ m_cleaned' = Append(m_cleaned, name)

\* step 7: Cleanup of every feature, then the table is returned
M_Cleanup ==
    /\ m_pc = "cleanup"
    /\ Feature_Cleanup(resolved.out[m_next])
    /\ m_pc' = IF m_next = Len(resolved.out) THEN "done" ELSE "cleanup"
    /\ m_next' = m_next + 1
    /\ UNCHANGED <<tableVars, arguments, resolved, m_initialized, m_error, outsideMeasure, m_calls>>

\* an error propagates: Cleanup of the initialized features, the last one first
M_Unwind ==
    /\ m_pc = "unwind"
    /\ Len(m_cleaned) < Len(m_initialized)
    /\ Feature_Cleanup(m_initialized[Len(m_initialized) - Len(m_cleaned)])
    /\ UNCHANGED <<tableVars, arguments, resolved, m_pc, m_next, m_initialized, m_error,
                   outsideMeasure, m_calls>>

\* M_Raise with the fault of not waiting for the Cleanup calls
M_Raise_WithoutCleanup ==
    /\ m_pc = "unwind"
    /\ m_pc' = "raised"
    /\ UNCHANGED <<tableVars, arguments, resolved, m_next, m_initialized, m_cleaned, m_error,
                   size_data_, mass_data_, outsideMeasure, m_calls>>

\* the error leaves Measure
M_Raise ==
    /\ m_pc = "unwind"
    /\ Len(m_cleaned) = Len(m_initialized)
    /\ m_pc' = "raised"
    /\ UNCHANGED <<tableVars, arguments, resolved, m_next, m_initialized, m_cleaned, m_error,
                   size_data_, mass_data_, outsideMeasure, m_calls>>

(***************************************************************************)
(* The calls of Measure that are explored: four label images with their    *)
(* intensities and a label image without data (a raw image), the           *)
(* grey-value image absent, scalar or tensor, every                        *)
(* request of up to MaxRequest names and short lists of object IDs.         *)
(***************************************************************************)
Scenes ==
    {[label |-> <<<<0, 1, 1>>, <<0, 1, 2>>, <<2, 2, 0>>>>,
      grey |-> <<<<0, 4, 2>>, <<0, 6, 8>>, <<3, 5, 0>>>>],
     [label |-> <<<<2, 0, 1>>, <<2, 2, 0>>>>,
      grey |-> <<<<1, 2, 4>>, <<8, 16, 32>>>>],
     [label |-> <<<<0, 2, 2>>>>,
      grey |-> <<<<1, 2, 4>>>>],
     [label |-> <<<<0, 0>>>>,
      grey |-> <<<<1, 2>>>>],
     [label |-> <<>>,
      grey |-> <<>>]}

GreyImages(scene) ==
    {[kind |-> "raw", lines |-> <<>>],
     [kind |-> "scalar", lines |-> scene.grey],
     [kind |-> "tensor", lines |-> scene.grey]}

RequestNames == {"Size", "Mass", "Perimeter", "Ratio", "Shape", "Unknown"}
Requests == {names \in SeqsUpTo(RequestNames, MaxRequest) : IsInjective(names)}

InitMeasure ==
    /\ objects_ = <<>>
    /\ objectIndices_ = EmptyMap
    /\ features_ = <<>>
    /\ values_ = <<>>
    /\ featureIndices_ = EmptyMap
    /\ data_ = <<>>
    /\ lastOp = "MeasurementTool"
    /\ err = OK
    /\ lastChanged = FALSE
    /\ MassIdle
    /\ tool_features_ =
           Tool_Construct([features_ |-> <<>>, featureIndices_ |-> EmptyMap], Catalog, 1).features_
    /\ tool_featureIndices_ =
           Tool_Construct([features_ |-> <<>>, featureIndices_ |-> EmptyMap], Catalog, 1).featureIndices_
    /\ request = <<>>
    /\ resolved = [out |-> <<>>, open |-> {}, err |-> OK]
    /\ toolPc = "registering"
    /\ MeasureIdle

\* the objectIDs arguments: none, one ID, two IDs (also twice the same), and two
\* IDs with the first one repeated behind the second
ObjectIDArguments ==
    {<<>>} \cup {<<a>> : a \in ObjectIDSet} \cup {<<a, b>> : a \in ObjectIDSet, b \in ObjectIDSet}
    \cup {<<c[1], c[2], c[1]>> : c \in {d \in ObjectIDSet \X ObjectIDSet : d[1] # d[2]}}

DoMeasure ==
    /\ m_pc = "idle"
    /\ \E scene \in Scenes, features \in Requests, objectIDs \in ObjectIDArguments :
           \E grey \in GreyImages(scene) : Measure(scene.label, grey, features, objectIDs)
DoInitialize == \E accepts \in BOOLEAN : M_Initialize(accepts)
DoChainCode == \E fails \in BOOLEAN : M_ChainCode(fails)

NextMeasure ==
    \/ DoMeasure
    \/ DoInitialize
    \/ M_Forge
    \/ M_ScanLine
    \/ M_Finish
    \/ DoChainCode
    \/ M_ConvexHull
    \/ M_Image
    \/ M_Composite
    \/ M_Cleanup
    \/ M_Unwind
    \/ M_Raise

SpecMeasure == InitMeasure /\ [][NextMeasure]_vars

(***************************************************************************)
(* The painter, ObjectToMeasurement, after section 4.6 of the              *)
(* specification. An image is a sequence of lines, a line a sequence of    *)
(* pixels, a pixel of the output the sequence of its tensor elements.      *)
(***************************************************************************)
\* IteratorFeature::Objects
IteratorFeature_Objects(t, feature) == t.objects_

\* the values of the cell of an object in a feature view
IteratorFeature_Values(t, feature, objectID) ==
    LET cell == IteratorFeature_Cell(t, feature, objectID)
    IN  IF cell.err # OK THEN [err |-> cell.err, val |-> <<>>]
        ELSE [err |-> OK,
              val |-> [v \in 1..IteratorFeature_Iterator_size(t, cell) |->
                          t.data_[IteratorFeature_Iterator_begin(t, cell).val + v]]]

\* O2M_Pixel with the fault of not testing whether the view has the label as an object
O2M_Pixel_NoContainsTest(t, featureValues, k) ==
    IF k > 0
    THEN IteratorFeature_Values(t, featureValues, k)
    ELSE [err |-> OK, val |-> [v \in 1..IteratorFeature_Feature(t, featureValues).numberValues |-> 0]]

\* what is written to a pixel of the output whose label is k
O2M_Pixel(t, featureValues, k) ==
    IF k > 0 /\ Contains(IteratorFeature_Objects(t, featureValues), k)
    THEN IteratorFeature_Values(t, featureValues, k)
    ELSE [err |-> OK, val |-> [v \in 1..IteratorFeature_Feature(t, featureValues).numberValues |-> 0]]

\* ObjectToMeasurement( label, out, featureValues ): an error of a pixel leaves the call
T_ObjectToMeasurement(label, t, featureValues) ==
    LET pixels == [y \in 1..Len(label) |->
                      [p \in 1..Len(label[y]) |-> O2M_Pixel(t, featureValues, label[y][p])]]
        failed == {c \in {<<y, p>> : y \in 1..Len(label), p \in 1..MassLineLen} :
                      c[2] <= Len(label[c[1]]) /\ pixels[c[1]][c[2]].err # OK}
    IN  IF failed # {}
        THEN [err |-> pixels[(CHOOSE c \in failed : TRUE)[1]][(CHOOSE c \in failed : TRUE)[2]].err,
              out |-> <<>>]
        ELSE [err |-> OK,
              out |-> [y \in 1..Len(label) |->
                          [p \in 1..Len(label[y]) |-> pixels[y][p].val]]]

\* the tables that are painted: a feature of one value and a feature of MaxValues
\* values, the given objects, forged, and every cell written with a value of its own
PaintTable(objectIDs) ==
    LET t1 == T_AddFeature(EmptyTable, "Size", <<ValueName(1)>>).t
        t2 == T_AddFeature(t1, "Mass", [ii \in 1..MaxValues |-> ValueName(ii)]).t
        t3 == T_AddObjectIDs(t2, objectIDs).t
        t4 == T_Forge(t3).t
    IN  [t4 EXCEPT !.data_ = [ii \in 1..Len(t4.data_) |-> ii]]

\* the label images that are painted: one line, or a line and its mirror image
PaintLabels ==
    {<<line>> : line \in LabelLines}
    \cup {<<line, [p \in 1..Len(line) |-> line[Len(line) + 1 - p]]>> : line \in LabelLines}

InitPaint ==
    /\ \E objectIDs \in {ids \in IdLists : ids # <<>> /\ IsInjective(ids)} :
           /\ objects_ = PaintTable(objectIDs).objects_
           /\ objectIndices_ = PaintTable(objectIDs).objectIndices_
           /\ features_ = PaintTable(objectIDs).features_
           /\ values_ = PaintTable(objectIDs).values_
           /\ featureIndices_ = PaintTable(objectIDs).featureIndices_
           /\ data_ = PaintTable(objectIDs).data_
    /\ lastOp = "Forge"
    /\ err = OK
    /\ lastChanged = TRUE
    /\ MassIdle
    /\ ToolIdle
    /\ m_label \in PaintLabels
    /\ m_grey = [kind |-> "raw", lines |-> <<>>]
    /\ m_objectIDs = <<>>
    /\ m_pc = "idle"
    /\ m_next = 0
    /\ m_initialized = <<>>
    /\ m_cleaned = <<>>
    /\ m_error = OK
    /\ m_calls = <<>>
    /\ size_data_ = <<>>
    /\ paint = [featureValues |-> [err |-> OK, index_ |-> 0], out |-> <<>>]
    /\ tools = <<>>
    /\ calls = <<>>
    /\ cursor = [views |-> <<>>, cell |-> [kind |-> "none", parent |-> 0, index_ |-> 0]]
    /\ offs = [pc |-> "idle"]

ObjectToMeasurement(name) ==
    LET featureValues == T_FeatureView(Table, name)
        r == T_ObjectToMeasurement(m_label, Table, featureValues)
    IN  /\ featureValues.err = OK
        /\ lastOp' = "ObjectToMeasurement"
        /\ err' = r.err
        /\ lastChanged' = FALSE
        /\ paint' = [featureValues |-> featureValues, out |-> r.out]
        /\ UNCHANGED <<tableVars, massVars, toolVars>>
        /\ UNCHANGED <<m_label, m_grey, m_objectIDs, m_pc, m_next, m_initialized, m_cleaned,
                       m_error, m_calls, size_data_, tools, calls, cursor, offs>>

DoObjectToMeasurement == \E name \in FeatureNames : ObjectToMeasurement(name)

NextPaint == DoObjectToMeasurement

SpecPaint == InitPaint /\ [][NextPaint]_vars

(***************************************************************************)
(* Two Measure calls for the Mass feature that run at the same time, on    *)
(* one tool or on two. A call is the sequence of calls the driver makes on *)
(* the FeatureMass instance of its tool: Initialize, ScanLine for every    *)
(* line, Finish for every row, Cleanup; the calls of the two are           *)
(* interleaved. The instance belongs to the tool (MeasurementTool's        *)
(* features_), its accumulators to the instance (FeatureMass::data_). An   *)
(* access to data_ beyond its size is undefined behaviour: the process     *)
(* ends, or it goes on, a write lost and a read giving any value.          *)
(***************************************************************************)
\* the instance with the fault of one data_ for all instances (a static member)
InstanceOf_Static(tool) == 1

\* the FeatureMass instance whose data_ a call on the tool uses
InstanceOf(tool) == tool

\* what a read beyond the accumulators may give
Garbage == {0, 99}

TwoScenes ==
    {[label |-> <<<<1, 1, 2>>, <<0, 2, 2>>>>, grey |-> <<GreyLine(3), GreyLine(3)>>,
      scalar |-> TRUE],
     [label |-> <<<<0, 1, 0>>>>, grey |-> <<GreyLine(3)>>, scalar |-> TRUE],
     [label |-> <<<<0, 1, 0>>>>, grey |-> <<GreyLine(3)>>, scalar |-> FALSE]}

\* a call that is about to start: the driver has validated the images, determined the
\* objects and built the table, whose Mass column is out; found is what the call's
\* Initialize met: the accumulators of the instance and where the other call was
NewCall(tool, scene) ==
    [tool |-> tool,
     label |-> scene.label,
     grey |-> scene.grey,
     scalar |-> scene.scalar,
     objects |-> T_AddObjectIDs(EmptyTable, M_GetObjectLabels(scene.label)).t.objects_,
     objectIndices |-> T_AddObjectIDs(EmptyTable, M_GetObjectLabels(scene.label)).t.objectIndices_,
     pc |-> "initialize",
     next |-> 1,
     out |-> <<>>,
     disturbed |-> FALSE,
     found |-> [data_ |-> <<>>, pc |-> "initialize", next |-> 1]]

InitTwo ==
    /\ objects_ = <<>>
    /\ objectIndices_ = EmptyMap
    /\ features_ = <<>>
    /\ values_ = <<>>
    /\ featureIndices_ = EmptyMap
    /\ data_ = <<>>
    /\ lastOp = "MeasurementTool"
    /\ err = OK
    /\ lastChanged = FALSE
    /\ MassIdle
    /\ ToolIdle
    /\ m_label = <<>>
    /\ m_grey = [kind |-> "raw", lines |-> <<>>]
    /\ m_objectIDs = <<>>
    /\ m_pc = "idle"
    /\ m_next = 0
    /\ m_initialized = <<>>
    /\ m_cleaned = <<>>
    /\ m_error = OK
    /\ m_calls = <<>>
    /\ size_data_ = <<>>
    /\ paint = [featureValues |-> [err |-> OK, index_ |-> 0], out |-> <<>>]
    /\ tools = <<<<>>, <<>>>>
    /\ cursor = [views |-> <<>>, cell |-> [kind |-> "none", parent |-> 0, index_ |-> 0]]
    /\ offs = [pc |-> "idle"]
    /\ \E tool \in {1, 2}, scene1 \in TwoScenes, scene2 \in TwoScenes :
           calls = <<NewCall(1, scene1), NewCall(tool, scene2)>>

Other(c) == 3 - c

\* the other call is between its Initialize and its Cleanup on the same instance
Meddles(c) ==
    /\ InstanceOf(calls[Other(c)].tool) = InstanceOf(calls[c].tool)
    /\ calls[Other(c)].pc \in {"scan", "finish"}

twoUnchanged == <<tableVars, callVars, massVars, toolVars, m_label, m_grey, m_objectIDs,
                  m_pc, m_next, m_initialized, m_cleaned, m_error, m_calls, size_data_, paint,
                  cursor, offs>>

\* the process ends
Crash ==
    calls' = [c \in 1..2 |-> [calls[c] EXCEPT !.pc = "crashed"]]

\* call c: Initialize, which throws for a grey-value image that is not scalar and ends
\* the call, then AddFeature and Forge
Two_Initialize(c) ==
    LET instance == InstanceOf(calls[c].tool)
        r == Mass_Initialize(tools[instance], calls[c].scalar, Len(calls[c].objects))
    IN  /\ calls[c].pc = "initialize"
        /\ tools' = [tools EXCEPT ![instance] = r.data_]
        /\ calls' = [calls EXCEPT
                        ![c].pc = IF r.err = OK THEN "scan" ELSE "failed",
                        ![c].out = IF r.err = OK THEN [row \in 1..Len(calls[c].objects) |-> 0]
                                   ELSE <<>>,
                        ![c].found = [data_ |-> tools[instance],
                                      pc |-> calls[Other(c)].pc,
                                      next |-> calls[Other(c)].next],
                        ![Other(c)].disturbed = @ \/ (Meddles(c) /\ r.err = OK)]
        /\ UNCHANGED twoUnchanged

\* call c: ScanLine on the next line; a pointer beyond the accumulators is used
\* when the line holds an object whose row the accumulators do not have
Two_ScanLine(c) ==
    LET instance == InstanceOf(calls[c].tool)
        line == calls[c].label[calls[c].next]
        inRange == {id \in DOMAIN calls[c].objectIndices :
                       calls[c].objectIndices[id] < Len(tools[instance])}
        beyond == \E p \in 1..Len(line) :
                      line[p] \in DOMAIN calls[c].objectIndices /\ line[p] \notin inRange
        last == calls[c].next = Len(calls[c].label)
    IN  /\ calls[c].pc = "scan"
        /\ \/ /\ tools' = [tools EXCEPT ![instance] =
                              Mass_ScanLine(tools[instance], line, calls[c].grey[calls[c].next],
                                  [id \in inRange |-> calls[c].objectIndices[id]])]
              /\ calls' = [calls EXCEPT ![c].pc = IF last THEN "finish" ELSE "scan",
                                        ![c].next = IF last THEN 1 ELSE @ + 1]
           \/ /\ beyond
              /\ Crash
              /\ UNCHANGED tools
        /\ UNCHANGED twoUnchanged

\* call c: Finish for the next row
Two_Finish(c, garbage) ==
    LET instance == InstanceOf(calls[c].tool)
        objectIndex == calls[c].next - 1
        beyond == objectIndex >= Len(tools[instance])
        last == calls[c].next = Len(calls[c].objects)
    IN  /\ calls[c].pc = "finish"
        /\ \/ /\ calls' = [calls EXCEPT
                              ![c].out[calls[c].next] =
                                  IF beyond THEN garbage
                                  ELSE Mass_Finish(tools[instance], objectIndex),
                              ![c].pc = IF last THEN "cleanup" ELSE "finish",
                              ![c].next = IF last THEN 1 ELSE @ + 1]
           \/ /\ beyond
              /\ Crash
        /\ UNCHANGED tools
        /\ UNCHANGED twoUnchanged

\* call c: Cleanup, and the table is returned
Two_Cleanup(c) ==
    LET instance == InstanceOf(calls[c].tool)
    IN  /\ calls[c].pc = "cleanup"
        /\ tools' = [tools EXCEPT ![instance] = Mass_Cleanup(tools[instance])]
        /\ calls' = [calls EXCEPT ![c].pc = "done",
                                  ![Other(c)].disturbed = @ \/ Meddles(c)]
        /\ UNCHANGED twoUnchanged

DoTwoInitialize == \E c \in 1..2 : Two_Initialize(c)
DoTwoScanLine == \E c \in 1..2 : Two_ScanLine(c)
DoTwoFinish == \E c \in 1..2, garbage \in Garbage : Two_Finish(c, garbage)
DoTwoCleanup == \E c \in 1..2 : Two_Cleanup(c)

NextTwo ==
    \/ DoTwoInitialize
    \/ DoTwoScanLine
    \/ DoTwoFinish
    \/ DoTwoCleanup

SpecTwo == InitTwo /\ [][NextTwo]_vars

(***************************************************************************)
(* A view kept in a variable of the caller and a cell obtained from it, on *)
(* a forged table. The cell holds a reference to its view (feature_,       *)
(* object_) and an index of its own; the views of the caller are a store   *)
(* and the reference is a position in it. Values are written through the   *)
(* cell's operator[].                                                      *)
(***************************************************************************)
NoCell == [kind |-> "none", parent |-> 0, index_ |-> 0]

\* the cell's constructor with the fault of a view member that is a copy, not a reference
Iterator_Construct_CopiesView(views, parent, index) ==
    [views |-> Append(views, views[parent]),
     cell |-> [kind |-> views[parent].kind, parent |-> Len(views) + 1, index_ |-> index]]

\* IteratorFeature::Iterator::Iterator / IteratorObject::Iterator::Iterator
Iterator_Construct(views, parent, index) ==
    [views |-> views,
     cell |-> [kind |-> views[parent].kind, parent |-> parent, index_ |-> index]]

\* the cell with its reference followed
Cell_Deref(c) ==
    IF c.cell.kind = "feature"
    THEN [err |-> OK, feature_ |-> c.views[c.cell.parent], index_ |-> c.cell.index_]
    ELSE [err |-> OK, object_ |-> c.views[c.cell.parent], index_ |-> c.cell.index_]

View_IsAtEnd(t, view) ==
    IF view.kind = "feature" THEN IteratorFeature_IsAtEnd(t, view)
    ELSE IteratorObject_IsAtEnd(t, view)

Cell_IsAtEnd(t, c) ==
    IF c.cell.kind = "feature" THEN IteratorFeature_Iterator_IsAtEnd(t, Cell_Deref(c))
    ELSE IteratorObject_Iterator_IsAtEnd(t, Cell_Deref(c))

Cell_begin(t, c) ==
    IF c.cell.kind = "feature" THEN IteratorFeature_Iterator_begin(t, Cell_Deref(c))
    ELSE IteratorObject_Iterator_begin(t, Cell_Deref(c))

Cell_size(t, c) ==
    IF c.cell.kind = "feature" THEN IteratorFeature_Iterator_size(t, Cell_Deref(c))
    ELSE IteratorObject_Iterator_size(t, Cell_Deref(c))

\* Iterator::operator[]( index ): the buffer element *( begin() + index )
Cell_Subscript(t, c, index) == Cell_begin(t, c).val + index

\* the cell may be used: it is bound, and neither its view nor the cell is at its end
Cell_Usable(t, c) ==
    /\ c.cell.kind # "none"
    /\ ~View_IsAtEnd(t, c.views[c.cell.parent])
    /\ ~Cell_IsAtEnd(t, c)

\* how many buffer elements may differ from zero
MaxWrites == 2
CellValues == {7}

\* the tables the views are taken of: a feature of one value and a feature of MaxValues
\* values, the given objects, forged
CursorTable(objectIDs) ==
    LET t1 == T_AddFeature(EmptyTable, "Size", <<ValueName(1)>>).t
        t2 == T_AddFeature(t1, "Mass", [ii \in 1..MaxValues |-> ValueName(ii)]).t
        t3 == T_AddObjectIDs(t2, objectIDs).t
    IN  T_Forge(t3).t

InitCursor ==
    /\ \E objectIDs \in {ids \in IdLists : ids # <<>> /\ IsInjective(ids)} :
           /\ objects_ = CursorTable(objectIDs).objects_
           /\ objectIndices_ = CursorTable(objectIDs).objectIndices_
           /\ features_ = CursorTable(objectIDs).features_
           /\ values_ = CursorTable(objectIDs).values_
           /\ featureIndices_ = CursorTable(objectIDs).featureIndices_
           /\ data_ = CursorTable(objectIDs).data_
    /\ lastOp = "Forge"
    /\ err = OK
    /\ lastChanged = TRUE
    /\ MassIdle
    /\ ToolIdle
    /\ MeasureIdle

cursorUnchanged == <<objects_, objectIndices_, features_, values_, featureIndices_,
                     massVars, toolVars, m_label, m_grey, m_objectIDs, m_pc, m_next,
                     m_initialized, m_cleaned, m_error, m_calls, size_data_, paint, tools,
                     calls, offs>>

\* auto view = table.FirstFeature() / table[ name ] / table.FirstObject() / table[ objectID ]
TakeView(kind, r) ==
    /\ cursor.views = <<>>
    /\ err' = r.err
    /\ lastChanged' = FALSE
    /\ cursor' = IF r.err # OK THEN cursor
                 ELSE [cursor EXCEPT !.views = <<[kind |-> kind, index_ |-> r.index_]>>]
    /\ UNCHANGED <<data_, cursorUnchanged>>

Cursor_FirstFeature ==
    /\ lastOp' = "view"
    /\ TakeView("feature", T_FirstFeature(Table))

Cursor_FeatureView(name) ==
    /\ lastOp' = "view"
    /\ TakeView("feature", T_FeatureView(Table, name))

Cursor_FirstObject ==
    /\ lastOp' = "view"
    /\ TakeView("object", T_FirstObject(Table))

Cursor_ObjectView(objectID) ==
    /\ lastOp' = "view"
    /\ TakeView("object", T_ObjectView(Table, objectID))

\* ++view
Cursor_IncrementView ==
    /\ cursor.views # <<>>
    /\ ~View_IsAtEnd(Table, cursor.views[1])
    /\ lastOp' = "++view"
    /\ err' = OK
    /\ lastChanged' = FALSE
    /\ cursor' = [cursor EXCEPT !.views[1] =
                     IF @.kind = "feature" THEN IteratorFeature_Increment(@)
                     ELSE IteratorObject_Increment(@)]
    /\ UNCHANGED <<data_, cursorUnchanged>>

\* auto cell = view.FirstObject() / view[ objectID ] / view.FirstFeature() / view[ name ]
TakeCell(r) ==
    /\ cursor.views # <<>>
    /\ cursor.cell.kind = "none"
    /\ ~View_IsAtEnd(Table, cursor.views[1])
    /\ err' = r.err
    /\ lastChanged' = FALSE
    /\ cursor' = IF r.err # OK THEN cursor
                 ELSE Iterator_Construct(cursor.views, 1, r.index_)
    /\ UNCHANGED <<data_, cursorUnchanged>>

Cursor_CellFirst ==
    /\ cursor.views # <<>>
    /\ lastOp' = "cell"
    /\ TakeCell(IF cursor.views[1].kind = "feature"
                THEN IteratorFeature_FirstObject(cursor.views[1])
                ELSE IteratorObject_FirstFeature(cursor.views[1]))

Cursor_CellOfObject(objectID) ==
    /\ cursor.views # <<>>
    /\ cursor.views[1].kind = "feature"
    /\ lastOp' = "cell"
    /\ TakeCell(IteratorFeature_Cell(Table, cursor.views[1], objectID))

Cursor_CellOfFeature(name) ==
    /\ cursor.views # <<>>
    /\ cursor.views[1].kind = "object"
    /\ lastOp' = "cell"
    /\ TakeCell(IteratorObject_Cell(Table, cursor.views[1], name))

\* ++cell
Cursor_IncrementCell ==
    /\ Cell_Usable(Table, cursor)
    /\ lastOp' = "++cell"
    /\ err' = OK
    /\ lastChanged' = FALSE
    /\ cursor' = [cursor EXCEPT !.cell =
                     IF @.kind = "feature" THEN IteratorFeature_Iterator_Increment(@)
                     ELSE IteratorObject_Iterator_Increment(@)]
    /\ UNCHANGED <<data_, cursorUnchanged>>

\* cell[ index ] = value
Cursor_Write(index, value) ==
    /\ Cell_Usable(Table, cursor)
    /\ index < Cell_size(Table, cursor)
    /\ Cardinality({ii \in 1..Len(data_) : data_[ii] # 0}) < MaxWrites
    /\ lastOp' = "write"
    /\ err' = OK
    /\ lastChanged' = TRUE
    /\ data_' = [data_ EXCEPT ![Cell_Subscript(Table, cursor, index) + 1] = value]
    /\ UNCHANGED <<cursor, cursorUnchanged>>

\* the view and its cell go out of scope
Cursor_Release ==
    /\ cursor.views # <<>>
    /\ lastOp' = "release"
    /\ err' = OK
    /\ lastChanged' = FALSE
    /\ cursor' = [views |-> <<>>, cell |-> NoCell]
    /\ UNCHANGED <<data_, cursorUnchanged>>

DoCursorFeatureView == \E name \in FeatureNames : Cursor_FeatureView(name)
DoCursorObjectView == \E objectID \in ObjectIDSet : Cursor_ObjectView(objectID)
DoCursorCellOfObject == \E objectID \in ObjectIDSet : Cursor_CellOfObject(objectID)
DoCursorCellOfFeature == \E name \in FeatureNames : Cursor_CellOfFeature(name)
DoCursorWrite == \E index \in 0..(MaxValues - 1), value \in CellValues : Cursor_Write(index, value)

NextCursor ==
    \/ Cursor_FirstFeature
    \/ DoCursorFeatureView
    \/ Cursor_FirstObject
    \/ DoCursorObjectView
    \/ Cursor_IncrementView
    \/ Cursor_CellFirst
    \/ DoCursorCellOfObject
    \/ DoCursorCellOfFeature
    \/ Cursor_IncrementCell
    \/ DoCursorWrite
    \/ Cursor_Release

SpecCursor == InitCursor /\ [][NextCursor]_vars

(***************************************************************************)
(* CreateOffsetsArray, both overloads. coords, sizes and strides are       *)
(* sequences: element ii of the code is element ii + 1 here. The mask      *)
(* image is its sizes, its strides and the set of offsets, from its        *)
(* origin, of the pixels that are set. A step is one turn of for( ;; ).    *)
(***************************************************************************)
OffsetsMaxDims == 3
OffsetsMaxSize == 4
OffsetsStrides == {-1, 3}

\* noInd, the number of offsets that is reserved
RECURSIVE Offsets_noInd(_, _)
Offsets_noInd(sizes, ndims) ==
    IF ndims = 1 THEN sizes[1] - 2
    ELSE Offsets_noInd(sizes, ndims - 1) * (sizes[ndims] - 2)

\* for( ii = 0; ii < ndims; ++ii ) ptr += coords[ ii ] * strides[ ii ]
RECURSIVE Offsets_Ptr(_, _, _)
Offsets_Ptr(coords, strides, ndims) ==
    IF ndims = 0 THEN 0
    ELSE Offsets_Ptr(coords, strides, ndims - 1) + coords[ndims] * strides[ndims]

\* for( ii = 1; ii < sizes[ 0 ] - 1; ++ii ) from ii on: the offsets afterwards
RECURSIVE Offsets_Row(_, _, _, _, _)
Offsets_Row(offsets, ptr, ii, sizes, strides) ==
    IF ~(ii < sizes[1] - 1) THEN offsets
    ELSE Offsets_Row(Append(offsets, ptr), ptr + strides[1], ii + 1, sizes, strides)

\* the same loop of the mask overload
RECURSIVE Offsets_RowMasked(_, _, _, _, _, _, _, _)
Offsets_RowMasked(offsets, ptr, mptr, ii, sizes, strides, maskstrides, mask) ==
    IF ~(ii < sizes[1] - 1) THEN offsets
    ELSE Offsets_RowMasked(IF mptr \in mask THEN Append(offsets, ptr) ELSE offsets,
                           ptr + strides[1], mptr + maskstrides[1], ii + 1,
                           sizes, strides, maskstrides, mask)

\* Offsets_Advance with the fault of not setting a coordinate back to 1 on a carry
RECURSIVE Offsets_Advance_NoReset(_, _, _)
Offsets_Advance_NoReset(coords, sizes, ii) ==
    IF ~(ii < Len(sizes)) THEN [coords |-> coords, ii |-> ii]
    ELSE LET next == [coords EXCEPT ![ii + 1] = @ + 1]
         IN  IF next[ii + 1] < sizes[ii + 1] - 1 THEN [coords |-> next, ii |-> ii]
             ELSE Offsets_Advance_NoReset(next, sizes, ii + 1)

\* for( ii = 1; ii < ndims; ++ii ) from ii on: the coordinates and ii afterwards
RECURSIVE Offsets_Advance(_, _, _)
Offsets_Advance(coords, sizes, ii) ==
    IF ~(ii < Len(sizes)) THEN [coords |-> coords, ii |-> ii]
    ELSE LET next == [coords EXCEPT ![ii + 1] = @ + 1]
         IN  IF next[ii + 1] < sizes[ii + 1] - 1 THEN [coords |-> next, ii |-> ii]
             ELSE Offsets_Advance([next EXCEPT ![ii + 1] = 1], sizes, ii + 1)

\* the strides of a mask image of the given sizes: dimension 0 contiguous, or the last one
MaskStrides(sizes, layout) ==
    [d \in 1..Len(sizes) |->
        IF layout = "first"
        THEN IF d = 1 THEN 1 ELSE Offsets_noInd([e \in 1..Len(sizes) |-> sizes[e] + 2], d - 1)
        ELSE IF d = Len(sizes) THEN 1
             ELSE Offsets_noInd([e \in 1..(Len(sizes) - d) |-> sizes[d + e] + 2], Len(sizes) - d)]

IsOdd(n) == n % 2 = 1
CoordSum(c) == Offsets_Ptr(c, [d \in 1..Len(c) |-> 1], Len(c))

\* the pixels of a mask image that are set: all, none, every other one, or all but the
\* pixel at coordinates 1
MaskKinds == {"all", "none", "checker", "hole"}
MaskPixels(sizes, layout, kind) ==
    {Offsets_Ptr(c, MaskStrides(sizes, layout), Len(sizes)) :
        c \in {c \in [1..Len(sizes) -> 0..(OffsetsMaxSize - 1)] :
                  /\ \A d \in 1..Len(sizes) : c[d] < sizes[d]
                  /\ CASE kind = "all" -> TRUE
                       [] kind = "none" -> FALSE
                       [] kind = "checker" -> IsOdd(CoordSum(c))
                       [] OTHER -> \E d \in 1..Len(sizes) : c[d] # 1}}

\* the strides given: one stride for all dimensions, or its multiples by the dimension
OffsetsStrideArrays(ndims) ==
    {[d \in 1..ndims |-> stride] : stride \in OffsetsStrides}
    \cup {[d \in 1..ndims |-> stride * d] : stride \in OffsetsStrides}

OffsetsSizes == UNION {[1..ndims -> 2..OffsetsMaxSize] : ndims \in 1..OffsetsMaxDims}

offsetsUnchanged == <<tableVars, callVars, massVars, toolVars, m_label, m_grey, m_objectIDs,
                      m_pc, m_next, m_initialized, m_cleaned, m_error, m_calls, size_data_,
                      paint, tools, calls, cursor>>

InitOffsets ==
    /\ objects_ = <<>>
    /\ objectIndices_ = EmptyMap
    /\ features_ = <<>>
    /\ values_ = <<>>
    /\ featureIndices_ = EmptyMap
    /\ data_ = <<>>
    /\ lastOp = "CreateOffsetsArray"
    /\ err = OK
    /\ lastChanged = FALSE
    /\ MassIdle
    /\ ToolIdle
    /\ m_label = <<>>
    /\ m_grey = [kind |-> "raw", lines |-> <<>>]
    /\ m_objectIDs = <<>>
    /\ m_pc = "idle"
    /\ m_next = 0
    /\ m_initialized = <<>>
    /\ m_cleaned = <<>>
    /\ m_error = OK
    /\ m_calls = <<>>
    /\ size_data_ = <<>>
    /\ paint = [featureValues |-> [err |-> OK, index_ |-> 0], out |-> <<>>]
    /\ tools = <<>>
    /\ calls = <<>>
    /\ cursor = [views |-> <<>>, cell |-> [kind |-> "none", parent |-> 0, index_ |-> 0]]
    /\ \E sizes \in OffsetsSizes :
           \E strides \in OffsetsStrideArrays(Len(sizes)) :
               \/ offs = [overload |-> "sizes", sizes |-> sizes, strides |-> strides,
                          maskstrides |-> strides, mask |-> {}, pc |-> "begin",
                          noInd |-> 0, coords |-> <<>>, offsets |-> <<>>]
               \/ \E layout \in {"first", "last"}, kind \in MaskKinds :
                      offs = [overload |-> "mask", sizes |-> sizes, strides |-> strides,
                              maskstrides |-> MaskStrides(sizes, layout),
                              mask |-> MaskPixels(sizes, layout, kind), pc |-> "begin",
                              noInd |-> 0, coords |-> <<>>, offsets |-> <<>>]

\* the statements in front of for( ;; ): noInd is computed by the sizes overload only
CreateOffsetsArray_Begin ==
    /\ offs.pc = "begin"
    /\ offs' = [offs EXCEPT
                   !.noInd = IF offs.overload = "sizes"
                             THEN Offsets_noInd(offs.sizes, Len(offs.sizes)) ELSE 0,
                   !.coords = [d \in 1..Len(offs.sizes) |-> 1],
                   !.pc = "loop"]
    /\ UNCHANGED offsetsUnchanged

\* one turn of for( ;; )
CreateOffsetsArray_Loop ==
    LET ndims == Len(offs.sizes)
        ptr == Offsets_Ptr(offs.coords, offs.strides, ndims)
        mptr == Offsets_Ptr(offs.coords, offs.maskstrides, ndims)
        a == Offsets_Advance(offs.coords, offs.sizes, 1)
    IN  /\ offs.pc = "loop"
        /\ offs' = [offs EXCEPT
                       !.offsets = IF offs.overload = "sizes"
                                   THEN Offsets_Row(@, ptr, 1, offs.sizes, offs.strides)
                                   ELSE Offsets_RowMasked(@, ptr, mptr, 1, offs.sizes,
                                                          offs.strides, offs.maskstrides,
                                                          offs.mask),
                       !.coords = a.coords,
                       !.pc = IF a.ii = ndims THEN "done" ELSE "loop"]
        /\ UNCHANGED offsetsUnchanged

NextOffsets ==
    \/ CreateOffsetsArray_Begin
    \/ CreateOffsetsArray_Loop

\* a call that has begun goes on until it returns
SpecOffsets == InitOffsets /\ [][NextOffsets]_vars /\ WF_vars(NextOffsets)

(***************************************************************************)
(* Properties of the table.                                                *)
(***************************************************************************)
Mutators == {"AddFeature", "EnsureFeature", "AddObjectIDs"}

\* C1 (Forge exclusivity): on a forged table every AddFeature, EnsureFeature and
\* AddObjectIDs call, whatever its arguments, throws "Measurement object is forged."
\* and leaves the feature list, value list, object list, both maps and the buffer as
\* they were.
ForgeExclusivity ==
    [][(IsForged /\ lastOp' \in Mutators) => (err' = AlreadyForged /\ UNCHANGED tableVars)]_vars

ForgeExclusivityWitness ==
    /\ IsForged
    /\ lastOp \in Mutators
    /\ err = AlreadyForged
    /\ NumberOfFeatures >= 2
    /\ NumberOfObjects >= 2

\* C2 (view duality and layout): in a forged table, for every object ID, feature name
\* and k below the feature's number of values, table[id][name][k] and
\* table[name][id][k] are the buffer element ObjectIndex(id) * Stride() +
\* ValueIndex(name) + k, which lies inside the buffer, and both cells have the
\* feature's number of values as their size.
ViewDuality ==
    IsForged =>
        \A objectID \in DOMAIN objectIndices_, name \in DOMAIN featureIndices_ :
            LET t == Table
                nv == T_NumberOfValuesOf(t, name).val
                fcell == IteratorFeature_Cell(t, T_FeatureView(t, name), objectID)
                ocell == IteratorObject_Cell(t, T_ObjectView(t, objectID), name)
            IN  /\ IteratorFeature_Iterator_size(t, fcell) = nv
                /\ IteratorObject_Iterator_size(t, ocell) = nv
                /\ \A k \in 0..(nv - 1) :
                       LET a == T_ObjectIndex(t, objectID).val * T_Stride(t)
                                    + T_ValueIndex(t, name).val + k
                       IN  /\ T_ByFeature(t, name, objectID, k) = [err |-> OK, val |-> a]
                           /\ T_ByObject(t, objectID, name, k) = [err |-> OK, val |-> a]
                           /\ a + 1 \in DOMAIN data_

ViewDualityWitness ==
    /\ IsForged
    /\ NumberOfObjects >= 2
    /\ NumberOfFeatures >= 2
    /\ \E j \in 1..Len(features_) : features_[j].numberValues >= 2 /\ features_[j].startColumn >= 1

\* C3: in every reachable state the buffer has Stride() * NumberOfObjects() elements
\* if the table is forged and none otherwise.
DataSize ==
    Len(data_) = IF IsForged THEN Stride * NumberOfObjects ELSE 0

DataSizeWitness ==
    /\ IsForged
    /\ Stride >= 2
    /\ NumberOfObjects >= 2
    /\ err # OK

RECURSIVE SumNumberValues(_, _)
SumNumberValues(features, n) ==
    IF n = 0 THEN 0 ELSE SumNumberValues(features, n - 1) + features[n].numberValues

\* C4: in every reachable state Stride() = NumberOfValues() = the sum of numberValues
\* over the features, and each feature's startColumn is the sum of numberValues of the
\* features before it.
ColumnLayout ==
    /\ Stride = NumberOfValues
    /\ Stride = SumNumberValues(features_, Len(features_))
    /\ \A j \in 1..Len(features_) :
           /\ features_[j].startColumn = SumNumberValues(features_, j - 1)
           /\ features_[j].numberValues >= 1

ColumnLayoutWitness ==
    /\ Len(features_) = 3
    /\ features_[1].numberValues = 2
    /\ features_[2].numberValues = 1
    /\ features_[3].startColumn = 3

\* C5: in every reachable state both maps are injective and the exact inverses of the
\* lists: ObjectIndex(Objects()[i]) = i, FeatureIndex(Features()[j].name) = j, and
\* neither map has a key that is not in its list.
MapsInverse ==
    /\ DOMAIN objectIndices_ = {objects_[i] : i \in 1..Len(objects_)}
    /\ \A i \in 1..Len(objects_) : T_ObjectIndex(Table, objects_[i]) = [err |-> OK, val |-> i - 1]
    /\ \A a, b \in DOMAIN objectIndices_ : objectIndices_[a] = objectIndices_[b] => a = b
    /\ DOMAIN featureIndices_ = {features_[j].name : j \in 1..Len(features_)}
    /\ \A j \in 1..Len(features_) :
           T_FeatureIndex(Table, features_[j].name) = [err |-> OK, val |-> j - 1]
    /\ \A a, b \in DOMAIN featureIndices_ : featureIndices_[a] = featureIndices_[b] => a = b

MapsInverseWitness ==
    /\ Len(objects_) >= 2
    /\ Len(features_) >= 2
    /\ lastOp = "AddObjectIDs"
    /\ err = ObjectPresent

(***************************************************************************)
(* Properties of FeatureMass.                                              *)
(***************************************************************************)
\* C8 (Mass correctness): during a run every accumulator holds the intensity of exactly
\* the pixels, of the lines scanned so far, whose label is the ID of its row (background,
\* labels that are in no row and the last-label cache change nothing else), and the value
\* Finish(i) writes to the Mass cell of row i, after one ScanLine call per image line, is
\* that sum over the whole image.
MassCorrect ==
    massPhase = "initialized" =>
        /\ Len(mass_data_) = NumberOfObjects
        /\ \A ii \in 1..NumberOfObjects : mass_data_[ii] = massExpected[ii]
        /\ \A objectIndex \in massFinished :
               /\ massScanned = MassNumLines
               /\ data_[MassCell(Table, objectIndex) + 1] = massExpected[objectIndex + 1]

MassCorrectWitness ==
    /\ massPhase = "initialized"
    /\ NumberOfObjects >= 2
    /\ massFinished = 0..(NumberOfObjects - 1)
    /\ data_[MassCell(Table, 0) + 1] > 2 ^ MassLineLen
    /\ data_[MassCell(Table, 1) + 1] = 1

(***************************************************************************)
(* Properties of the resolver.                                             *)
(***************************************************************************)
\* the names a registered feature depends on directly
DepsOf(feature) ==
    IF feature.type = "COMPOSITE" THEN {feature.deps[i] : i \in 1..Len(feature.deps)} ELSE {}

DirectDeps(name) ==
    IF name \in DOMAIN tool_featureIndices_
    THEN DepsOf(tool_features_[tool_featureIndices_[name] + 1])
    ELSE {}

\* the names reached from a set of names along dependencies, in at most n steps
RECURSIVE ReachFrom(_, _)
ReachFrom(S, n) ==
    IF n = 0 \/ S = {} THEN S
    ELSE ReachFrom(S \cup UNION {DirectDeps(x) : x \in S}, n - 1)

\* the transitive dependencies of a name
TransitiveDeps(name) == ReachFrom(DirectDeps(name), Cardinality(ResolveNames))

RequestedNames == {request[i] : i \in 1..Len(request)}
RequestClosure == ReachFrom(RequestedNames, Cardinality(ResolveNames))
RequestIsAcyclic == \A name \in RequestClosure : name \notin TransitiveDeps(name)
RequestIsKnown == \A name \in RequestClosure : Tool_Exists(Tool, name)

PositionIn(seq, x) == CHOOSE i \in 1..Len(seq) : seq[i] = x

PositiveLabels(label) ==
    UNION {{label[y][p] : p \in 1..Len(label[y])} : y \in 1..Len(label)} \ {0}

Elements(seq) == {seq[ii] : ii \in 1..Len(seq)}
FirstPosition(seq, x) ==
    CHOOSE ii \in 1..Len(seq) : seq[ii] = x /\ \A jj \in 1..(ii - 1) : seq[jj] # x
Reverse(seq) == [ii \in 1..Len(seq) |-> seq[Len(seq) + 1 - ii]]

\* C7 (identifier preservation): the rows of the table Measure returns are the IDs of
\* the caller's list, each once, in the order of their first occurrences; for an empty
\* list they are the positive labels of the label image, each once, in ascending order.
IdentifierPreservation ==
    m_pc = "done" =>
        /\ IsInjective(objects_)
        /\ IF m_objectIDs = <<>>
           THEN /\ Elements(objects_) = PositiveLabels(m_label)
                /\ \A ii \in 1..Len(objects_) : \A jj \in (ii + 1)..Len(objects_) :
                       objects_[ii] < objects_[jj]
           ELSE /\ Elements(objects_) = Elements(m_objectIDs)
                /\ \A ii \in 1..Len(objects_) : \A jj \in (ii + 1)..Len(objects_) :
                       FirstPosition(m_objectIDs, objects_[ii])
                           < FirstPosition(m_objectIDs, objects_[jj])

IdentifierPreservationWitness ==
    /\ m_pc = "done"
    /\ m_objectIDs = <<2, 1, 2>>
    /\ objects_ = <<2, 1>>

\* the buffer elements of a row of the table
RowElements(row) == {(row - 1) * Stride + k : k \in 1..Stride}

ValidationErrors == {LabelNotForged, FeatureNameNotKnown, CyclicDependency, GreyRequired}

\* some feature the request resolves to needs the grey-value image
RequestNeedsGrey ==
    \E name \in RequestClosure : Tool_Exists(Tool, name) /\ Tool_Feature(Tool, name).needsGreyValue

InvalidArgument == {NoFeatureName, FeaturePresent, NoValues}

\* C12 (AddFeature): on a table that is not forged, a call of AddFeature throws for an empty
\* name, an empty values array or a name that is present, and then changes nothing;
\* in every other case it returns and the table has one more feature, of that name,
\* with as many values as the array, and is otherwise as before.
AddFeatureChecksArguments ==
    ~IsForged =>
        \A name \in FeatureNames, values \in ValueArrays :
            LET r == T_AddFeature(Table, name, values)
            IN  IF name = "" \/ values = <<>> \/ FeatureExists(name)
                THEN /\ r.err \in InvalidArgument
                     /\ r.t = Table
                ELSE /\ r.err = OK
                     /\ Len(r.t.features_) = Len(features_) + 1
                     /\ SubSeq(r.t.features_, 1, Len(features_)) = features_
                     /\ r.t.features_[Len(r.t.features_)].name = name
                     /\ r.t.features_[Len(r.t.features_)].numberValues = Len(values)
                     /\ r.t.values_ = values_ \o values
                     /\ r.t.objects_ = objects_
                     /\ r.t.objectIndices_ = objectIndices_
                     /\ r.t.data_ = data_

AddFeatureChecksArgumentsWitness ==
    /\ lastOp = "AddFeature"
    /\ err = FeaturePresent
    /\ ~lastChanged
    /\ ~IsForged
    /\ NumberOfFeatures = 2
    /\ NumberOfObjects = 1

\* C13 (EnsureFeature): on a table that is not forged, EnsureFeature with a name that
\* is not empty and is present returns and changes nothing, whatever the values array;
\* in every other case it does what AddFeature does.
EnsureFeatureNoOpOnCollision ==
    ~IsForged =>
        \A name \in FeatureNames, values \in ValueArrays :
            LET r == T_EnsureFeature(Table, name, values)
            IN  IF name # "" /\ FeatureExists(name)
                THEN /\ r.err = OK
                     /\ r.t = Table
                ELSE r = T_AddFeature(Table, name, values)

\* EnsureFeature returned without changing a table with features: a name collision
EnsureFeatureNoOpOnCollisionWitness ==
    /\ lastOp = "EnsureFeature"
    /\ err = OK
    /\ ~lastChanged
    /\ ~IsForged
    /\ NumberOfFeatures = 2
    /\ features_[2].startColumn = 2
    /\ features_[2].numberValues = 1

\* C14 (AddObjectIDs): on a table that is not forged, AddObjectIDs throws when one of
\* the IDs is a row of the table or occurs twice in the array; in every other case it
\* returns, the IDs follow the rows there were, in the order of the array, each mapped
\* to the index of its row, and nothing else has changed.
AddObjectIDsChecksDuplicates ==
    ~IsForged =>
        \A objectIDs \in IdLists :
            LET r == T_AddObjectIDs(Table, objectIDs)
            IN  IF (\E ii \in 1..Len(objectIDs) : ObjectExists(objectIDs[ii]))
                       \/ ~IsInjective(objectIDs)
                THEN r.err = ObjectPresent
                ELSE /\ r.err = OK
                     /\ r.t.objects_ = objects_ \o objectIDs
                     /\ DOMAIN r.t.objectIndices_ =
                            DOMAIN objectIndices_ \cup {objectIDs[ii] : ii \in 1..Len(objectIDs)}
                     /\ \A id \in DOMAIN objectIndices_ :
                            r.t.objectIndices_[id] = objectIndices_[id]
                     /\ \A ii \in 1..Len(objectIDs) :
                            r.t.objectIndices_[objectIDs[ii]] = Len(objects_) + ii - 1
                     /\ r.t.features_ = features_
                     /\ r.t.values_ = values_
                     /\ r.t.featureIndices_ = featureIndices_
                     /\ r.t.data_ = data_

\* AddObjectIDs threw on the second of two rows added before
AddObjectIDsChecksDuplicatesWitness ==
    /\ lastOp = "AddObjectIDs"
    /\ err = ObjectPresent
    /\ ~lastChanged
    /\ objects_ = <<2, 1>>
    /\ objectIndices_[2] = 0
    /\ objectIndices_[1] = 1

\* C15 (Forge is idempotent): Forge called on a forged table returns and changes
\* nothing; the values in the buffer stay.
ForgeIdempotent ==
    [][(IsForged /\ lastOp' = "Forge") => (err' = OK /\ UNCHANGED tableVars)]_vars

\* Forge returned on a forged table that holds the mass of an object
ForgeIdempotentWitness ==
    /\ lastOp = "Forge"
    /\ err = OK
    /\ ~lastChanged
    /\ IsForged
    /\ massFinished # {}
    /\ \E ii \in 1..Len(data_) : data_[ii] > 0

\* an object ID and a feature name the table does not have, if there are any
FreshObjectIDs == {id \in ObjectIDSet : ~ObjectExists(id)}
FreshFeatureNames == {name \in FeatureNames \ {""} : ~FeatureExists(name)}

\* C16 (Forge of an empty table): Forge on a table that is not forged throws exactly
\* when the table has no values or no objects, and then changes nothing, the table
\* staying unforged; in the state a failed Forge leaves, AddFeature and AddObjectIDs
\* are accepted and a Forge after them succeeds.
ForgeFailsOnEmpty ==
    [][/\ (~IsForged /\ lastOp' = "Forge") =>
              IF values_ = <<>> \/ objects_ = <<>>
              THEN /\ err' = ZeroSized
                   /\ UNCHANGED tableVars
              ELSE /\ err' = OK
                   /\ data_' # <<>>
       /\ (lastOp = "Forge" /\ err = ZeroSized) =>
              /\ ~IsForged
              /\ \A id \in FreshObjectIDs : T_AddObjectIDs(Table, <<id>>).err = OK
              /\ \A name \in FreshFeatureNames : T_AddFeature(Table, name, <<"v0">>).err = OK
              /\ \A id \in FreshObjectIDs, name \in FreshFeatureNames :
                     LET a == T_AddObjectIDs(Table, <<id>>).t
                         b == T_AddFeature(a, name, <<"v0">>).t
                     IN  /\ T_Forge(b).err = OK
                         /\ T_IsForged(T_Forge(b).t)]_vars

\* Forge threw on a table with features and no objects
ForgeFailsOnEmptyWitness ==
    /\ lastOp = "Forge"
    /\ err = ZeroSized
    /\ ~lastChanged
    /\ ~IsForged
    /\ NumberOfFeatures = 2
    /\ NumberOfObjects = 0
    /\ FreshObjectIDs # {}
    /\ FreshFeatureNames # {}

\* C17 (zero-initialised buffer): right after the Forge call that forges the table,
\* the buffer has Stride * NumberOfObjects elements and every one of them is zero.
ForgeZeroes ==
    [][(~IsForged /\ lastOp' = "Forge" /\ err' = OK) =>
          /\ Len(data_') = Len(values_) * Len(objects_)
          /\ Len(data_') > 0
          /\ \A ii \in 1..Len(data_') : data_'[ii] = 0]_vars

\* Forge has just forged a table of two objects and three values
ForgeZeroesWitness ==
    /\ lastOp = "Forge"
    /\ err = OK
    /\ lastChanged
    /\ NumberOfObjects = 2
    /\ Stride = 3
    /\ NumberOfFeatures = 2
    /\ Len(data_) = 6

(***************************************************************************)
(* Raw access and cell access.                                             *)
(***************************************************************************)
\* C18 as stated (raw accessors assert forged): Data() and Stride() both throw
\* NotForged on a table that is not forged and both return on a forged table.
RawAccessorsAssertForged ==
    /\ ~IsForged => (T_Data(Table).err = NotForged /\ T_StrideCall(Table).err = NotForged)
    /\ IsForged => (T_Data(Table).err = OK /\ T_StrideCall(Table).err = OK)

\* C18 as amended: Data() throws NotForged exactly on a table that is not forged;
\* Stride() never throws and returns the number of values, forged or not.
DataAssertsForged ==
    /\ ~IsForged => T_Data(Table).err = NotForged
    /\ IsForged => T_Data(Table).err = OK
    /\ T_StrideCall(Table).err = OK
    /\ T_StrideCall(Table).val = Len(values_)

\* a table with columns and a row that is not forged
DataAssertsForgedWitness ==
    /\ ~IsForged
    /\ NumberOfObjects = 1
    /\ T_Data(Table).err = NotForged
    /\ T_StrideCall(Table) = [err |-> OK, val |-> 3]

\* C19 as stated (cell access asserts forged): on a table with features and objects
\* that is not forged, the begin of a cell throws NotForged, whether the cell was
\* reached as table[name][id] or as table[id][name].
CellAccessAssertsForged ==
    ~IsForged =>
        \A name \in DOMAIN featureIndices_, objectID \in DOMAIN objectIndices_ :
            /\ T_ByObject(Table, objectID, name, 0).err = NotForged
            /\ T_ByFeature(Table, name, objectID, 0).err = NotForged

FeatureLookupErrors(name) ==
    {T_FeatureIndex(Table, name).err, T_ValueIndex(Table, name).err,
     T_ValuesOf(Table, name).err, T_NumberOfValuesOf(Table, name).err,
     T_FeatureView(Table, name).err}

ObjectLookupErrors(objectID) ==
    {T_ObjectIndex(Table, objectID).err, T_ObjectView(Table, objectID).err}

\* C20 (lookup misses): in every state, FeatureIndex, ValueIndex, Values(name),
\* NumberOfValues(name) and table[name] all throw "Feature not present" for a name when
\* FeatureExists(name) is false and all return when it is true; ObjectIndex and table[id]
\* throw "Object not present" when ObjectExists(id) is false and return when it is true;
\* the find of a lookup leaves its map as it was, and after a call of a lookup the
\* table is the table of before.
LookupMissesAreErrors ==
    /\ \A name \in FeatureNames : MapFind(featureIndices_, name).m = featureIndices_
    /\ \A objectID \in ObjectIDSet : MapFind(objectIndices_, objectID).m = objectIndices_
    /\ lastOp = "lookup" => ~lastChanged
    /\ lastOp = "lookup" => err \in {OK, UnknownFeature, UnknownObject}
    /\ \A name \in FeatureNames :
           FeatureLookupErrors(name) = IF FeatureExists(name) THEN {OK} ELSE {UnknownFeature}
    /\ \A objectID \in ObjectIDSet :
           ObjectLookupErrors(objectID) = IF ObjectExists(objectID) THEN {OK} ELSE {UnknownObject}

LookupMissesAreErrorsWitness ==
    /\ lastOp = "lookup"
    /\ err = UnknownFeature
    /\ ~lastChanged
    /\ features_ # <<>>
    /\ objects_ # <<>>
    /\ IsForged
    /\ \E name \in FeatureNames : name # "" /\ ~FeatureExists(name)

IsPrefix(a, b) == Len(a) <= Len(b) /\ SubSeq(b, 1, Len(a)) = a

\* C21 (schema monotonicity): a step taken on a table that is not forged leaves the
\* feature list, the value list and the object list as they were or extends them at
\* the end, and every name and identifier keeps the index it had; a step taken on a
\* forged table leaves the three lists as they were.
SchemaMonotonicity ==
    [][IF IsForged
       THEN UNCHANGED <<features_, values_, objects_>>
       ELSE /\ IsPrefix(features_, features_')
            /\ IsPrefix(values_, values_')
            /\ IsPrefix(objects_, objects_')
            /\ \A name \in DOMAIN featureIndices_ :
                   /\ name \in DOMAIN featureIndices_'
                   /\ featureIndices_'[name] = featureIndices_[name]
            /\ \A objectID \in DOMAIN objectIndices_ :
                   /\ objectID \in DOMAIN objectIndices_'
                   /\ objectIndices_'[objectID] = objectIndices_[objectID]]_vars

SchemaMonotonicityWitness ==
    /\ ~IsForged
    /\ lastOp = "AddObjectIDs"
    /\ err = ObjectPresent
    /\ lastChanged
    /\ NumberOfFeatures >= 2
    /\ NumberOfObjects >= 2

\* C22 (registry uniqueness): while features are registered, Register of a feature whose
\* name is registered gives the registry as it is and Register of any other feature
\* appends it with the next index; Features() holds no name twice, Index of the name
\* at position i of Features() is i, and Index of a name that is not in Features()
\* throws "Feature name not known".
RegistryUniqueness ==
    toolPc = "registering" =>
        /\ \A feature \in RegistrableFeatures :
               IF \E ii \in 1..Len(tool_features_) : tool_features_[ii].name = feature.name
               THEN Tool_Register(Tool, feature) = Tool
               ELSE /\ Tool_Register(Tool, feature).features_ = Append(tool_features_, feature)
                    /\ Tool_Index(Tool_Register(Tool, feature), feature.name) =
                           [err |-> OK, val |-> Len(tool_features_)]
        /\ \A ii, jj \in 1..Len(Tool_Features(Tool)) :
               Tool_Features(Tool)[ii].name = Tool_Features(Tool)[jj].name => ii = jj
        /\ \A ii \in 1..Len(Tool_Features(Tool)) :
               Tool_Index(Tool, Tool_Features(Tool)[ii].name) = [err |-> OK, val |-> ii - 1]
        /\ \A name \in ResolveNames \cup {"Unknown"} :
               (\A ii \in 1..Len(Tool_Features(Tool)) : Tool_Features(Tool)[ii].name # name)
                   => Tool_Index(Tool, name).err = FeatureNameNotKnown

RegistryUniquenessWitness ==
    /\ lastOp = "Register"
    /\ toolPc = "registering"
    /\ Len(tool_features_) = 2
    /\ \E feature \in RegistrableFeatures :
           /\ Tool_Exists(Tool, feature.name)
           /\ feature # Tool_Feature(Tool, feature.name)
           /\ Tool_Register(Tool, feature) = Tool
    /\ \E name \in ResolveNames : Tool_Index(Tool, name).err = FeatureNameNotKnown

\* the requested names that no feature of the request's closure depends on
RequestedRoots ==
    {name \in RequestedNames : \A other \in RequestClosure : name \notin DirectDeps(other)}

\* C23 (minimal closure): when the dependency graph of the request is acyclic, then
\* if every name of it is registered resolution succeeds and the resolved list holds
\* exactly the requested names and their transitive dependencies, each once, with the
\* requested names that are nobody's dependency in the order of the request; and if
\* some name of it is not registered resolution fails with "Feature name not known".
MinimalClosure ==
    (toolPc = "resolved" /\ RequestIsAcyclic) =>
        IF RequestIsKnown
        THEN /\ resolved.err = OK
             /\ Elements(resolved.out) = RequestClosure
             /\ IsInjective(resolved.out)
             /\ \A ii, jj \in 1..Len(request) :
                    (ii < jj /\ request[ii] \in RequestedRoots /\ request[jj] \in RequestedRoots)
                        => PositionIn(resolved.out, request[ii]) < PositionIn(resolved.out, request[jj])
        ELSE resolved.err = FeatureNameNotKnown

MinimalClosureWitness ==
    /\ toolPc = "resolved"
    /\ request = <<"Ratio", "Size">>
    /\ Tool_Exists(Tool, "Ratio")
    /\ Tool_Exists(Tool, "Perimeter")
    /\ Tool_Feature(Tool, "Ratio").deps = <<"Perimeter", "Size">>
    /\ Tool_Feature(Tool, "Perimeter").deps = <<"Size">>
    /\ resolved = [out |-> <<"Size", "Perimeter", "Ratio">>, open |-> {}, err |-> OK]

\* C24 (cycles): when every name of the request's dependency graph is registered,
\* resolution ends, with "Cyclic dependency" when the graph has a cycle and without an
\* error when it has none; when it ends with "Cyclic dependency", the name it stopped at
\* is open and depends on itself.
CyclesAreReported ==
    (toolPc = "resolved" /\ RequestIsKnown) =>
        /\ resolved.err = (IF RequestIsAcyclic THEN OK ELSE CyclicDependency)
        /\ resolved.err = CyclicDependency =>
               /\ resolved.open # {}
               /\ \E name \in resolved.open : name \in TransitiveDeps(name)
        /\ resolved.err = OK => resolved.open = {}

CyclesAreReportedWitness ==
    /\ toolPc = "resolved"
    /\ request = <<"Ratio">>
    /\ Tool_Exists(Tool, "Ratio")
    /\ Tool_Exists(Tool, "Perimeter")
    /\ Tool_Feature(Tool, "Ratio").deps = <<"Perimeter">>
    /\ Tool_Feature(Tool, "Perimeter").deps = <<"Ratio">>
    /\ resolved = [out |-> <<>>, open |-> {"Ratio", "Perimeter"}, err |-> CyclicDependency]

\* the pass of Measure in which the features of a type write their cells
PassOf(type) ==
    CASE type = "LINE_BASED" -> "finish"
      [] type = "CHAINCODE_BASED" -> "chaincode"
      [] type = "CONVEXHULL_BASED" -> "convexhull"
      [] type = "IMAGE_BASED" -> "image"
      [] type = "COMPOSITE" -> "composite"

\* the place of a step of Measure in the order of the passes
PassRank(pc) ==
    CASE pc \in {"scan", "finish"} -> 1
      [] pc = "chaincode" -> 2
      [] pc = "convexhull" -> 3
      [] pc = "image" -> 4
      [] pc = "composite" -> 5
      [] OTHER -> 0

\* the name of the feature that element ii of data_ belongs to
FeatureOfElement(ii) ==
    LET col == (ii - 1) % Stride
        j == CHOOSE j \in 1..Len(features_) :
                 /\ features_[j].startColumn <= col
                 /\ col < features_[j].startColumn + features_[j].numberValues
    IN  features_[j].name

\* the cells of the composite features are what Measure gives on the table as it is
CompositeCellsCurrent ==
    \A row \in 1..Len(objects_), f \in 1..Len(resolved.out) :
        TypeOf(resolved.out[f]) = "COMPOSITE" =>
            ReadCell(Table, objects_[row], resolved.out[f]) = M_Measure(Table, resolved.out[f], row)

\* C25 (pass ordering): the steps of the passes follow each other in the order
\* scanline (ScanLine, then Finish), chain code, convex hull, whole image, composite;
\* a cell of the forged table changes only in the pass of its feature's type, so no
\* cell of another type changes in or after the composite pass; and when the composite
\* pass is over, every cell of a composite feature is what the feature's Measure
\* gives on the cells of its dependencies as they then are.
PassOrdering ==
    [][/\ (PassRank(m_pc) > 0 /\ PassRank(m_pc') > 0) =>
              \/ PassRank(m_pc') = PassRank(m_pc) + 1
              \/ <<m_pc, m_pc'>> \in {<<"scan", "scan">>, <<"scan", "finish">>}
       /\ (PassRank(m_pc) > 0 /\ PassRank(m_pc') = 0) =>
              m_pc' \in {"unwind", "cleanup"} /\ (m_pc' = "cleanup" => m_pc = "composite")
       /\ (IsForged /\ Len(data_') = Len(data_)) =>
              \A ii \in 1..Len(data_) :
                  data_'[ii] # data_[ii] => PassOf(TypeOf(FeatureOfElement(ii))) = m_pc
       /\ m_pc = "composite" => CompositeCellsCurrent']_vars

PassOrderingWitness ==
    /\ m_pc = "done"
    /\ request = <<"Shape", "Mass">>
    /\ \E row \in 1..Len(objects_) :
           /\ ReadCell(Table, objects_[row], "Ratio") > 0
           /\ ReadCell(Table, objects_[row], "Hull") > 1
           /\ ReadCell(Table, objects_[row], "Top") > 1
           /\ ReadCell(Table, objects_[row], "Shape") > 4
           /\ ReadCell(Table, objects_[row], "Mass") > 0

\* the positions in m_calls of the calls of a kind for a feature with an argument
CallsOf(call, name, arg) ==
    {k \in 1..Len(m_calls) : m_calls[k] = [call |-> call, feature |-> name, arg |-> arg]}

LineBasedNames == {name \in Elements(resolved.out) : TypeOf(name) = "LINE_BASED"}

\* the sum over the image lines from y on of what an object weighs on a line
RECURSIVE ImageMass(_, _, _, _)
ImageMass(label, grey, objectID, y) ==
    IF y > Len(label) THEN 0
    ELSE LineMass(label[y], grey[y], objectID) + ImageMass(label, grey, objectID, y + 1)

\* C26 (scanline pass protocol): once the scanline pass is over, every line-based
\* feature of the request has had exactly one ScanLine call for every line of the label
\* image and no other, the lines in ascending order and, on one line, the features in
\* resolved order; it has had exactly one Finish call for every row, with the index of
\* the row, all of them after the last ScanLine call; and the cell of the row for the
\* feature holds the feature's total over all lines: the number of the object's pixels
\* for Size, their intensity for Mass.
ScanlineProtocol ==
    PassRank(m_pc) > 1 \/ m_pc \in {"cleanup", "done"} =>
        /\ \A k \in 1..Len(m_calls) :
               /\ m_calls[k].feature \in LineBasedNames
               /\ m_calls[k].call \in {"ScanLine", "Finish"}
               /\ m_calls[k].call = "ScanLine" => m_calls[k].arg \in 1..Len(m_label)
               /\ m_calls[k].call = "Finish" => m_calls[k].arg \in 0..(NumberOfObjects - 1)
        /\ \A name \in LineBasedNames :
               /\ \A y \in 1..Len(m_label) : Cardinality(CallsOf("ScanLine", name, y)) = 1
               /\ \A row \in 1..NumberOfObjects :
                      Cardinality(CallsOf("Finish", name, row - 1)) = 1
        /\ \A k, kk \in 1..Len(m_calls) :
               (k < kk /\ m_calls[kk].call = "ScanLine") =>
                   /\ m_calls[k].call = "ScanLine"
                   /\ m_calls[k].arg <= m_calls[kk].arg
                   /\ m_calls[k].arg = m_calls[kk].arg =>
                          PositionIn(resolved.out, m_calls[k].feature)
                              < PositionIn(resolved.out, m_calls[kk].feature)
        /\ \A row \in 1..NumberOfObjects :
               /\ "Size" \in LineBasedNames =>
                      ReadCell(Table, objects_[row], "Size") = M_PixelCount(m_label, objects_[row], 1)
               /\ "Mass" \in LineBasedNames =>
                      ReadCell(Table, objects_[row], "Mass")
                          = ImageMass(m_label, m_grey.lines, objects_[row], 1)

ScanlineProtocolWitness ==
    /\ m_pc = "done"
    /\ resolved.out = <<"Mass", "Size">>
    /\ Len(m_label) = 3
    /\ NumberOfObjects = 2
    /\ Len(m_calls) = 10
    /\ \A row \in 1..NumberOfObjects : ReadCell(Table, objects_[row], "Mass") > 4

\* C27 (painter): after ObjectToMeasurement, which never throws, the output has a line
\* for every line of the label image and a pixel for every pixel of it, every pixel
\* has as many elements as the feature of the view has values, and the elements of a
\* pixel are the values of the feature for the object of the pixel's label when the
\* label is positive and an object of the table, and zero otherwise.
PainterCorrect ==
    lastOp = "ObjectToMeasurement" =>
        LET feature == features_[paint.featureValues.index_ + 1]
        IN  /\ err = OK
            /\ Len(paint.out) = Len(m_label)
            /\ \A y \in 1..Len(m_label) :
                   /\ Len(paint.out[y]) = Len(m_label[y])
                   /\ \A p \in 1..Len(m_label[y]) :
                          /\ Len(paint.out[y][p]) = feature.numberValues
                          /\ \A v \in 1..feature.numberValues :
                                 paint.out[y][p][v] =
                                     IF m_label[y][p] > 0 /\ m_label[y][p] \in Elements(objects_)
                                     THEN data_[(FirstPosition(objects_, m_label[y][p]) - 1) * Stride
                                                + feature.startColumn + v]
                                     ELSE 0

PainterCorrectWitness ==
    /\ lastOp = "ObjectToMeasurement"
    /\ err = OK
    /\ features_[paint.featureValues.index_ + 1].numberValues = MaxValues
    /\ Len(m_label) = 2
    /\ objects_ = <<2>>
    /\ m_label[1] = <<0, 1, 2>>
    /\ paint.out[1][1] = <<0, 0>>
    /\ paint.out[1][2] = <<0, 0>>
    /\ paint.out[1][3] = <<2, 3>>

\* the Mass column a call on its own gives for its images
MassAlone(call) ==
    [row \in 1..Len(call.objects) |-> ImageMass(call.label, call.grey, call.objects[row], 1)]

\* the rows of the call for which Finish has been called
FinishedRows(call) ==
    IF call.pc = "finish" THEN 1..(call.next - 1)
    ELSE IF call.pc \in {"cleanup", "done"} THEN 1..Len(call.objects)
    ELSE {}

\* C28 (concurrency): of two Measure calls that run at the same time, a call ends the
\* process or writes a value other than the one it writes on its own only if both calls
\* are on the same tool and the other call has begun; calls on two tools do not disturb
\* one another, and each leaves the accumulators of the other's tool alone
ConcurrentMeasure ==
    \A c \in 1..Len(calls) :
        LET call == calls[c]
            other == calls[Other(c)]
        IN  /\ (\/ call.pc = "crashed"
                \/ call.disturbed
                \/ \E row \in FinishedRows(call) : call.out[row] # MassAlone(call)[row])
               => (call.tool = other.tool /\ other.pc # "initialize")
            /\ (call.tool # other.tool /\ call.pc = "initialize") => tools[call.tool] = <<>>
            /\ (call.tool # other.tool /\ call.pc \in {"scan", "finish"})
               => Len(tools[call.tool]) = Len(call.objects)

\* on one tool, the second call's Initialize alone, between two lines of the first call,
\* makes the first call write the mass of its second line only
ConcurrentMeasureWitness ==
    /\ Len(calls) = 2
    /\ calls[1].tool = calls[2].tool
    /\ calls[1].pc = "done"
    /\ calls[1].disturbed
    /\ calls[2].pc = "scan"
    /\ calls[2].next = 1
    /\ MassAlone(calls[1]) = <<3, 10>>
    /\ calls[1].out = <<0, 6>>

\* the views and cell iterators met when incrementing from the given one until IsAtEnd
RECURSIVE FeatureWalk(_, _, _)
FeatureWalk(t, feature, visited) ==
    IF IteratorFeature_IsAtEnd(t, feature) THEN visited
    ELSE FeatureWalk(t, IteratorFeature_Increment(feature), Append(visited, feature))

RECURSIVE ObjectWalk(_, _, _)
ObjectWalk(t, object, visited) ==
    IF IteratorObject_IsAtEnd(t, object) THEN visited
    ELSE ObjectWalk(t, IteratorObject_Increment(object), Append(visited, object))

RECURSIVE FeatureCellWalk(_, _, _)
FeatureCellWalk(t, cell, visited) ==
    IF IteratorFeature_Iterator_IsAtEnd(t, cell) THEN visited
    ELSE FeatureCellWalk(t, IteratorFeature_Iterator_Increment(cell), Append(visited, cell))

RECURSIVE ObjectCellWalk(_, _, _)
ObjectCellWalk(t, cell, visited) ==
    IF IteratorObject_Iterator_IsAtEnd(t, cell) THEN visited
    ELSE ObjectCellWalk(t, IteratorObject_Iterator_Increment(cell), Append(visited, cell))

\* C29 (iteration completeness): incrementing from FirstFeature() until IsAtEnd takes
\* NumberOfFeatures() increments and meets the features once each in insertion order, and
\* incrementing from FirstObject() takes NumberOfObjects() increments and meets the rows
\* once each in insertion order; without features, or without objects, the first view is
\* at its end; the cell iterators from view.FirstObject() and view.FirstFeature() do the
\* same over the rows and the features, their ObjectID() and Name() being those of the
\* row and the feature addressed
IterationCompleteness ==
    LET columns == FeatureWalk(Table, T_FirstFeature(Table), <<>>)
        rows == ObjectWalk(Table, T_FirstObject(Table), <<>>)
    IN  /\ Len(columns) = NumberOfFeatures
        /\ \A ii \in 1..Len(columns) :
               /\ IteratorFeature_Name(Table, columns[ii]) = features_[ii].name
               /\ LET cells == FeatureCellWalk(Table, IteratorFeature_FirstObject(columns[ii]), <<>>)
                  IN  /\ Len(cells) = NumberOfObjects
                      /\ \A jj \in 1..Len(cells) :
                             /\ IteratorFeature_Iterator_ObjectID(Table, cells[jj]) = objects_[jj]
                             /\ IteratorFeature_Iterator_Name(Table, cells[jj]) = features_[ii].name
        /\ (features_ = <<>>) = IteratorFeature_IsAtEnd(Table, T_FirstFeature(Table))
        /\ Len(rows) = NumberOfObjects
        /\ \A jj \in 1..Len(rows) :
               /\ IteratorObject_ObjectID(Table, rows[jj]) = objects_[jj]
               /\ LET cells == ObjectCellWalk(Table, IteratorObject_FirstFeature(rows[jj]), <<>>)
                  IN  /\ Len(cells) = NumberOfFeatures
                      /\ \A ii \in 1..Len(cells) :
                             /\ IteratorObject_Iterator_Name(Table, cells[ii]) = features_[ii].name
                             /\ IteratorObject_Iterator_ObjectID(Table, cells[ii]) = objects_[jj]
        /\ (objects_ = <<>>) = IteratorObject_IsAtEnd(Table, T_FirstObject(Table))

\* a table of two features and two rows, the rows not in ascending order of identifier
IterationCompletenessWitness ==
    /\ NumberOfFeatures = 2
    /\ NumberOfObjects = 2
    /\ objects_[1] > objects_[2]
    /\ IsForged
    /\ Len(FeatureWalk(Table, T_FirstFeature(Table), <<>>)) = 2
    /\ IteratorFeature_Iterator_ObjectID(Table,
           FeatureCellWalk(Table, IteratorFeature_FirstObject(T_FirstFeature(Table)), <<>>)[2])
       = objects_[2]

\* C30 (failure atomicity of AddObjectIDs): when AddObjectIDs throws because one of the
\* IDs is a row of the table or occurs twice in the array, objects_ and objectIndices_
\* are what they were before the call: none of the IDs in front of the offending one
\* has been added
AddObjectIDsFailureAtomic ==
    ~IsForged =>
        \A objectIDs \in IdLists :
            LET r == T_AddObjectIDs(Table, objectIDs)
            IN  r.err = ObjectPresent =>
                    /\ r.t.objects_ = objects_
                    /\ r.t.objectIndices_ = objectIndices_

\* the buffer elements of the cell of an object and a feature, by the feature view and
\* by the object view
RangeByFeature(t, name, objectID) ==
    {T_ByFeature(t, name, objectID, k).val : k \in 0..(T_NumberOfValuesOf(t, name).val - 1)}

RangeByObject(t, objectID, name) ==
    {T_ByObject(t, objectID, name, k).val : k \in 0..(T_NumberOfValuesOf(t, name).val - 1)}

CellKeys == {<<objects_[jj], features_[ii].name>> : jj \in 1..Len(objects_), ii \in 1..Len(features_)}

\* the buffer elements of the cell the caller holds
HeldRange == {Cell_Subscript(Table, cursor, k) : k \in 0..(Cell_size(Table, cursor) - 1)}

\* C31 (cells partition the buffer): in a forged table the cells of two different
\* (object, feature) pairs have no buffer element in common, by either view, the cells
\* together are exactly the elements 0 .. Stride * NumberOfObjects - 1, and a write through
\* a cell, which is one of these cells, changes no element outside the cell
CellsPartition ==
    [][(IsForged /\ lastOp' = "write") =>
          /\ \A a \in CellKeys :
                 /\ RangeByFeature(Table, a[2], a[1]) = RangeByObject(Table, a[1], a[2])
                 /\ \A b \in CellKeys \ {a} :
                        RangeByFeature(Table, a[2], a[1]) \cap RangeByObject(Table, b[1], b[2]) = {}
          /\ UNION {RangeByFeature(Table, a[2], a[1]) : a \in CellKeys}
                 = 0..(Stride * NumberOfObjects - 1)
          /\ \E a \in CellKeys : HeldRange = RangeByFeature(Table, a[2], a[1])
          /\ \A ii \in 1..Len(data_) : (ii - 1) \notin HeldRange => data_'[ii] = data_[ii]
          /\ Len(data_') = Len(data_)]_vars

\* the second value of Mass of the second row written through a cell of the feature view,
\* the first row's Size written before
CellsPartitionWitness ==
    /\ lastOp = "write"
    /\ cursor.cell = [kind |-> "feature", parent |-> 1, index_ |-> 1]
    /\ cursor.views[1].index_ = 1
    /\ Len(data_) = 2 * (1 + MaxValues)
    /\ data_[1] = 7
    /\ data_[Len(data_)] = 7
    /\ \A ii \in 2..(Len(data_) - 1) : data_[ii] = 0

\* the object and the feature the held cell reports, and its window of the buffer
HeldObjectID(c) ==
    IF c.cell.kind = "feature" THEN IteratorFeature_Iterator_ObjectID(Table, Cell_Deref(c))
    ELSE IteratorObject_Iterator_ObjectID(Table, Cell_Deref(c))

HeldName(c) ==
    IF c.cell.kind = "feature" THEN IteratorFeature_Iterator_Name(Table, Cell_Deref(c))
    ELSE IteratorObject_Iterator_Name(Table, Cell_Deref(c))

\* C32 (a cell is a live cursor): when the view a cell was obtained from is incremented
\* and is not at its end afterwards, the cell, untouched itself, addresses in the case of
\* a feature view the same object in the column group of the next feature, with that
\* feature's number of values, and in the case of an object view the same feature in the
\* next row; the increment changes no element of the buffer
CellIsLiveCursor ==
    [][(/\ lastOp' = "++view"
        /\ cursor.cell.kind # "none"
        /\ Cell_Usable(Table, cursor)
        /\ Cell_Usable(Table, cursor')) =>
           LET ii == cursor.views[1].index_ + 1
               jj == cursor.cell.index_ + 1
           IN  /\ cursor.cell' = cursor.cell
               /\ data_' = data_
               /\ IF cursor.cell.kind = "feature"
                  THEN /\ HeldName(cursor) = features_[ii].name
                       /\ HeldName(cursor') = features_[ii + 1].name
                       /\ HeldObjectID(cursor') = HeldObjectID(cursor)
                       /\ Cell_size(Table, cursor') = features_[ii + 1].numberValues
                       /\ Cell_begin(Table, cursor').val
                              = (jj - 1) * Stride + features_[ii + 1].startColumn
                  ELSE /\ HeldObjectID(cursor) = objects_[ii]
                       /\ HeldObjectID(cursor') = objects_[ii + 1]
                       /\ HeldName(cursor') = HeldName(cursor)
                       /\ Cell_size(Table, cursor') = Cell_size(Table, cursor)
                       /\ Cell_begin(Table, cursor').val = Cell_begin(Table, cursor).val + Stride]_vars

\* the cell of the second row taken from the view of Size, a value written through it,
\* and the view incremented to Mass: the cell is now the Mass cell of the second row
CellIsLiveCursorWitness ==
    /\ lastOp = "++view"
    /\ cursor.cell = [kind |-> "feature", parent |-> 1, index_ |-> 1]
    /\ cursor.views = <<[kind |-> "feature", index_ |-> 1]>>
    /\ Len(objects_) = 2
    /\ data_[Stride + 1] # 0
    /\ Cell_begin(Table, cursor).val = Stride + 1
    /\ Cell_size(Table, cursor) = MaxValues

\* the other call has not taken a step since the call's Initialize: the call runs alone,
\* after whatever the other call did and left behind
AloneSince(c) ==
    /\ calls[Other(c)].pc = calls[c].found.pc
    /\ calls[Other(c)].next = calls[c].found.next

\* C33 (no state of FeatureMass leaks between runs): of two runs on one tool, the later
\* one, run alone after the earlier one has stopped anywhere (not begun, scanned and never
\* cleaned up, or cleaned up), has after Initialize one accumulator per object, all zero,
\* and writes the Mass values it writes on its own; an Initialize that throws (the
\* grey-value image is not scalar) leaves the accumulators as it found them; and after
\* Cleanup there are no accumulators
MassStateDoesNotLeak ==
    \A c \in 1..Len(calls) :
        LET call == calls[c]
            acc == tools[InstanceOf(call.tool)]
        IN  (call.tool = calls[Other(c)].tool /\ AloneSince(c)) =>
                /\ call.pc = "failed" => acc = call.found.data_
                /\ (call.pc = "scan" /\ call.next = 1) =>
                       acc = [row \in 1..Len(call.objects) |-> 0]
                /\ call.pc \in {"scan", "finish"} => Len(acc) = Len(call.objects)
                /\ \A row \in FinishedRows(call) : call.out[row] = MassAlone(call)[row]
                /\ call.pc = "done" => acc = <<>>

\* the first run of two objects was scanned and left without Cleanup; the second run, of
\* the same image on the same tool, has written the same values as a run on its own
MassStateDoesNotLeakWitness ==
    /\ Len(calls) = 2
    /\ calls[1].tool = calls[2].tool
    /\ calls[1].pc = "finish"
    /\ calls[1].next = 1
    /\ calls[2].found = [data_ |-> <<3, 10>>, pc |-> "finish", next |-> 1]
    /\ calls[2].label = calls[1].label
    /\ calls[2].pc = "done"
    /\ calls[2].out = <<3, 10>>
    /\ tools[calls[2].tool] = <<>>

(***************************************************************************)
(* Properties of CreateOffsetsArray.                                       *)
(***************************************************************************)
\* the number of interior coordinates of the dimensions below d, and of all dimensions
RECURSIVE InteriorBelow(_, _)
InteriorBelow(sizes, d) ==
    IF d = 1 THEN 1 ELSE InteriorBelow(sizes, d - 1) * (sizes[d - 1] - 2)

InteriorCount(sizes) == InteriorBelow(sizes, Len(sizes) + 1)

\* interior coordinate number n (from 0), dimension 0 varying fastest
InteriorCoord(sizes, n) ==
    [d \in 1..Len(sizes) |-> 1 + ((n \div InteriorBelow(sizes, d)) % (sizes[d] - 2))]

Dot(c, strides) == IF c = <<>> THEN 0 ELSE Offsets_Ptr(c, strides, Len(c))

InteriorOffsets(sizes, strides) ==
    [n \in 1..InteriorCount(sizes) |-> Dot(InteriorCoord(sizes, n - 1), strides)]

\* the offsets of the first n interior coordinates whose mask pixel is set
RECURSIVE MaskedInteriorOffsets(_, _, _, _, _)
MaskedInteriorOffsets(sizes, strides, maskstrides, mask, n) ==
    IF n = 0 THEN <<>>
    ELSE LET before == MaskedInteriorOffsets(sizes, strides, maskstrides, mask, n - 1)
             c == InteriorCoord(sizes, n - 1)
         IN  IF Dot(c, maskstrides) \in mask THEN Append(before, Dot(c, strides)) ELSE before

AllInteriorSet ==
    \A n \in 1..InteriorCount(offs.sizes) :
        Dot(InteriorCoord(offs.sizes, n - 1), offs.maskstrides) \in offs.mask

\* C34 (offsets of the interior): when every size is at least 3, CreateOffsetsArray
\* returns, and what it returns is the offset sum of c[d] * strides[d] of every interior
\* coordinate c, once each, dimension 0 varying fastest; the mask overload returns of
\* these the offsets whose mask pixel, found with the strides of the mask, is set, in the
\* same order, which is the whole list when every mask pixel is set
OffsetsOfInterior ==
    (\A d \in 1..Len(offs.sizes) : offs.sizes[d] >= 3) =>
        <>(/\ offs.pc = "done"
           /\ offs.overload = "sizes" =>
                  offs.offsets = InteriorOffsets(offs.sizes, offs.strides)
           /\ offs.overload = "mask" =>
                  /\ offs.offsets = MaskedInteriorOffsets(offs.sizes, offs.strides,
                                        offs.maskstrides, offs.mask, InteriorCount(offs.sizes))
                  /\ AllInteriorSet => offs.offsets = InteriorOffsets(offs.sizes, offs.strides))

\* a mask of three dimensions with some interior pixels set and some not
OffsetsOfInteriorWitness ==
    /\ offs.pc = "done"
    /\ offs.overload = "mask"
    /\ offs.sizes = <<4, 3, 4>>
    /\ offs.strides = <<-1, -2, -3>>
    /\ ~AllInteriorSet
    /\ offs.offsets = <<-6, -10>>

\* C35 (number of offsets): what CreateOffsetsArray( sizes, strides ) returns has as many
\* offsets as the product of sizes[d] - 2 over the dimensions, the number it reserves,
\* for sizes that are all at least 2; it is empty when a dimension, dimension 0 or
\* another, has size 2
OffsetsCountIsReserved ==
    (offs.pc = "done" /\ offs.overload = "sizes") =>
        /\ Len(offs.offsets) = offs.noInd
        /\ offs.noInd = InteriorCount(offs.sizes)
        /\ (\E d \in 1..Len(offs.sizes) : offs.sizes[d] = 2) => offs.offsets = <<>>

====
